---- MODULE Spec2Model ----
(***************************************************************************)
(* BlueBuzzah updater: the DFU coordinator (commands/dfu.rs), the DFU      *)
(* engine (dfu/protocol.rs) and its per-packet reliability layer, with the *)
(* bootloader on the far side of the serial link.                          *)
(***************************************************************************)
EXTENDS Integers, Sequences, FiniteSets, TLC

\* ------------------------------------------------------------------ bounds
\* Largest firmware image, in bytes.
MaxFwLen == 1000
\* Most frames and ACKs in flight on the link when the host writes another frame.
MaxLag == 2
\* Largest firmware image handed to send_firmware on its own: 17 chunks.
MaxImage == 8193
\* Most enumeration scans that fit into the timeout of a device wait.
MaxScans == 6
\* Longest byte string handed to the SLIP encoder.
MaxBytes == 4
\* Most pieces of text the configurator reads while it waits for one reply.
MaxResponse == 4
\* Most calls of next_sequence_number between two resets: past the wrap of the u8.
MaxCalls == 260
\* Most calls of reset_sequence_number.
MaxResets == 2
\* Longest frame whose content is compared byte by byte.
MaxKept == 2
\* Longest payload handed to build_hci_header: past the 12 bits of its length field.
MaxPayload == 4100

\* ------------------------------------------------------- program constants
MAX_OPERATION_RETRIES == 2
MAX_PACKET_RETRIES == 3
FIRMWARE_CHUNK_SIZE == 512

\* config.rs: data frames per flash page.
FRAMES_PER_FLASH_PAGE == 8

\* device.rs: sightings in a row a device wait requires.
REQUIRED_CONSECUTIVE == 2

\* packet.rs: the most bytes the streaming SLIP decoder buffers.
MAX_SLIP_FRAME_SIZE == 1536

\* config.rs: the SLIP framing bytes.
SLIP_END == 192
SLIP_ESC == 219
SLIP_ESC_END == 220
SLIP_ESC_ESC == 221

\* The frontend invocations of flash_dfu_firmware that may be in progress at
\* the same time. Each may invoke the command again once it has returned.
Calls == {"first", "second"}
\* Sizes of the firmware image in the package.
FwSizes == {MaxFwLen}

VARIABLES
    DFU_IN_PROGRESS,    \* static AtomicBool, commands/dfu.rs:21
    DFU_CANCELLED,      \* static AtomicBool, commands/dfu.rs:18
    SEQUENCE_NUMBER,    \* static AtomicU8, dfu/packet.rs:64
    call,               \* per invocation: the locals of flash_dfu_firmware and of the engine
    wire,               \* frames written by the host that the bootloader has not processed
    acks,               \* ACK frames waiting in the host's receive buffer
    devAcked,           \* packets of the session the bootloader has acknowledged
    obs,                \* per invocation: history of what the call did
    rx,                 \* one wait_for_ack with its HciSlipDecoder, byte by byte
    fw,                 \* one send_firmware, frame by frame
    fwd,                \* one flash_dfu_firmware_inner with its progress forwarder
    scan,               \* one wait_for_bootloader_flexible / wait_for_application_flexible
    rt,                 \* one slip::encode followed by slip::decode
    prof,               \* one set_device_profile command
    conf,               \* one configurator dialog over the application port
    sq,                 \* the sequence counter, call by call
    dec,                \* one HciSlipDecoder fed byte after byte
    hdr,                \* one build_hci_header
    seen,               \* an observer of one flash_dfu_firmware call
    role                \* the device_role argument of one flash_dfu_firmware call

\* The components studied on their own, each under its own specification.
parts == <<rx, fw, fwd, scan, rt, prof, conf, sq, dec, hdr, seen, role>>

vars == <<DFU_IN_PROGRESS, DFU_CANCELLED, SEQUENCE_NUMBER, call, wire, acks, devAcked, obs,
          rx, fw, fwd, scan, rt, prof, conf, sq, dec, hdr, seen, role>>

\* ------------------------------------------------------------- error texts
\* Display of DfuError (and of the coordinator's own error strings), as words.
Display(e) ==
    CASE e = "Io" -> <<"I/O", "error", "broken", "pipe">>
      [] e = "Serial" -> <<"Serial", "port", "error", "unknown">>
      [] e = "Zip" -> <<"ZIP", "error", "invalid", "archive">>
      [] e = "Json" -> <<"JSON", "error", "expected", "value">>
      [] e = "InvalidSlipEscape" -> <<"Invalid", "SLIP", "escape", "sequence">>
      [] e = "IncompleteSlipFrame" -> <<"Incomplete", "SLIP", "frame">>
      [] e = "SlipBufferOverflow" -> <<"SLIP", "buffer", "overflow">>
      [] e = "CrcMismatch" -> <<"CRC", "mismatch", "expected", "got">>
      [] e = "Timeout" -> <<"Timeout", "waiting", "for", "ACK">>
      [] e = "BootloaderTimeout" -> <<"Bootloader", "not", "found", "within", "10000ms">>
      [] e = "MaxRetriesExceeded" -> <<"Max", "retries", "exceeded", "for", "send_and_wait_ack">>
      [] e = "MissingFile" -> <<"Missing", "file", "in", "firmware.zip", "manifest.json">>
      [] e = "MissingDatFile" -> <<"Missing", "file", "in", "firmware.zip", "bootloader", ".dat">>
      [] e = "NoDeviceFound" -> <<"No", "compatible", "device", "found">>
      [] e = "DeviceDisconnected" -> <<"Device", "disconnected", "during", "connection", "health", "check">>
      [] e = "PortBusy" -> <<"Port", "is", "busy", "or", "in", "use", "by", "another", "application">>
      [] e = "PortPermissionDenied" -> <<"Permission", "denied", "for", "port">>
      [] e = "SequenceMismatch" -> <<"Sequence", "mismatch", "expected", "got">>
      [] e = "RoleConfigTimeout" -> <<"Failed", "to", "configure", "device", "role", "Timeout", "waiting", "for", "role", "configuration", "acknowledgment">>
      [] e = "RoleConfigError" -> <<"Failed", "to", "configure", "device", "role", "[ERROR]", "Invalid", "role">>
      [] e = "RoleConfigInvalid" -> <<"Failed", "to", "configure", "device", "role", "Invalid", "role", "BOGUS">>
      [] e = "Cancelled" -> <<"Operation", "cancelled", "by", "user">>
      [] e = "Panicked" -> <<"DFU", "task", "panicked", "task", "panicked">>
      [] e = "AlreadyInProgress" -> <<"A", "firmware", "installation", "is", "already", "in", "progress">>
      [] OTHER -> <<>>

\* str::to_lowercase, word by word.
LowerWord(w) ==
    CASE w = "I/O" -> "i/o"
      [] w = "Timeout" -> "timeout"
      [] w = "Bootloader" -> "bootloader"
      [] w = "No" -> "no"
      [] w = "Device" -> "device"
      [] w = "Serial" -> "serial"
      [] w = "ZIP" -> "zip"
      [] w = "JSON" -> "json"
      [] w = "Invalid" -> "invalid"
      [] w = "SLIP" -> "slip"
      [] w = "Incomplete" -> "incomplete"
      [] w = "CRC" -> "crc"
      [] w = "ACK" -> "ack"
      [] w = "Max" -> "max"
      [] w = "Missing" -> "missing"
      [] w = "Port" -> "port"
      [] w = "Permission" -> "permission"
      [] w = "Sequence" -> "sequence"
      [] w = "Failed" -> "failed"
      [] w = "[ERROR]" -> "[error]"
      [] w = "Operation" -> "operation"
      [] w = "DFU" -> "dfu"
      [] w = "A" -> "a"
      [] OTHER -> w

to_lowercase(text) == [i \in 1..Len(text) |-> LowerWord(text[i])]

\* str::contains on words: needle is a contiguous run of text.
contains(text, needle) ==
    \E i \in 1..(Len(text) - Len(needle) + 1) :
        SubSeq(text, i, i + Len(needle) - 1) = needle

\* The needles with "cancelled" among them.
RetriableNeedlesCancelled ==
    { <<"timeout">>, <<"bootloader">>, <<"disconnected">>, <<"health", "check">>,
      <<"no", "compatible", "device">>, <<"not", "found">>, <<"not", "functioning">>,
      <<"access", "denied">>, <<"device", "not", "configured">>, <<"i/o", "error">>,
      <<"connection", "reset">>, <<"temporarily", "unavailable">>, <<"cancelled">> }

\* The needles with "invalid role" among them.
RetriableNeedlesInvalidRole ==
    { <<"timeout">>, <<"bootloader">>, <<"disconnected">>, <<"health", "check">>,
      <<"no", "compatible", "device">>, <<"not", "found">>, <<"not", "functioning">>,
      <<"access", "denied">>, <<"device", "not", "configured">>, <<"i/o", "error">>,
      <<"connection", "reset">>, <<"temporarily", "unavailable">>, <<"invalid", "role">> }

RetriableNeedles ==
    { <<"timeout">>, <<"bootloader">>, <<"disconnected">>, <<"health", "check">>,
      <<"no", "compatible", "device">>, <<"not", "found">>, <<"not", "functioning">>,
      <<"access", "denied">>, <<"device", "not", "configured">>, <<"i/o", "error">>,
      <<"connection", "reset">>, <<"temporarily", "unavailable">> }

\* A coordinator that retries after every error.
is_operation_retriable_any(error) == TRUE

is_operation_retriable(error) ==
    LET e == to_lowercase(error) IN \E n \in RetriableNeedles : contains(e, n)

\* is_retriable with the I/O error taken for a transient one.
is_retriable_io(e) == e \in {"Timeout", "CrcMismatch", "SequenceMismatch", "Io"}

\* DfuError::is_retriable
is_retriable(e) == e \in {"Timeout", "CrcMismatch", "SequenceMismatch"}

\* ------------------------------------------------------------------ codec
\* A counter that runs from 1 to 7 and never returns 0.
next_sequence_number_from_one(s) == (s % 7) + 1

\* A reset that keeps what the last session left in the counter.
reset_sequence_number_kept == SEQUENCE_NUMBER

\* reset_sequence_number: the value stored in the counter.
reset_sequence_number == 0

\* What fetch_add(1) leaves in the AtomicU8.
fetch_add(s) == (s + 1) % 256

\* next_sequence_number: fetch_add(1) on the u8, then wrapping_add(1) & 0x07.
next_sequence_number(s) == ((s + 1) % 256) % 8

\* ----------------------------------------------------------------- stages
Stage(s) == [stage |-> s, sent |-> 0]
Uploading(n) == [stage |-> "Uploading", sent |-> n]

\* The stages with Starting announced before the port is opened.
StageOfSwapped(step) ==
    CASE step = "read_package" -> "ReadingPackage"
      [] step = "get_device" -> "DetectedDevice"
      [] step = "enter_bootloader" -> "EnteringBootloader"
      [] step = "wait_bootloader" -> "WaitingForBootloader"
      [] step = "connect" -> "Starting"
      [] step = "start_dfu" -> "Connecting"
      [] step = "init_packet" -> "SendingInit"
      [] step = "stop_data" -> "Finalizing"
      [] step = "reboot_wait" -> "WaitingForReboot"
      [] step = "configure_role" -> "ConfiguringRole"
      [] step = "complete" -> "Complete"
      [] OTHER -> "none"

\* The stage upload_firmware emits when it starts a pipeline step.
StageOf(step) ==
    CASE step = "read_package" -> "ReadingPackage"
      [] step = "get_device" -> "DetectedDevice"
      [] step = "enter_bootloader" -> "EnteringBootloader"
      [] step = "wait_bootloader" -> "WaitingForBootloader"
      [] step = "connect" -> "Connecting"
      [] step = "start_dfu" -> "Starting"
      [] step = "init_packet" -> "SendingInit"
      [] step = "stop_data" -> "Finalizing"
      [] step = "reboot_wait" -> "WaitingForReboot"
      [] step = "configure_role" -> "ConfiguringRole"
      [] step = "complete" -> "Complete"
      [] OTHER -> "none"

Emit(cc, s) == [cc EXCEPT !.stages = Append(@, s)]

\* ------------------------------------------------------ cancellation sites
\* The pipeline steps upload_firmware (and send_firmware, per chunk) start
\* with `if is_cancelled() { ... return Err(Cancelled) }`.
CheckSites == {"get_device", "enter_bootloader", "connect", "start_dfu", "data"}

HasCancelCheck(step) == step \in CheckSites

\* is_dfu_cancelled() as polled when `step` is about to start.
Gate(step) == HasCancelCheck(step) /\ DFU_CANCELLED

\* --------------------------------------------------------- scoped release
\* Admission that ignores the value the swap returned.
AdmittedAlways(inProgress) == TRUE

\* `DFU_IN_PROGRESS.swap(true)` returned false: the caller is admitted.
Admitted(inProgress) == ~inProgress

\* Admission without the store: the flag keeps its value.
ResetAtAdmissionSkipped(old) == old

\* `DFU_CANCELLED.store(false)` when a call is admitted.
ResetAtAdmission(old) == FALSE

\* `DFU_CANCELLED.store(false)` after the sleep that precedes a session retry.
ResetForRetry(old) == FALSE

\* A guard whose drop does not store: the flag keeps its value.
DfuGuardDropLeak(old) == old

\* Drop for DfuGuard: the value left in DFU_IN_PROGRESS.
DfuGuardDrop(old) == FALSE

\* A guard made before the test of the swap: the rejected call drops it.
RejectedReleases(old) == DfuGuardDrop(old)

\* DFU_IN_PROGRESS after a rejected call: `swap(true)` stored true and the
\* call returned before it made a guard.
Rejected(old) == TRUE

\* A session that outlives the return: the port stays as it was.
DropTransportLeak(t) == t

\* Dropping the protocol session (explicit drop, `?` return or unwinding)
\* closes the serial port it owns.
DropTransport(t) == IF t = "open" THEN "closed" ELSE t

\* A session kept open while the device reboots.
keep_through_wait(t) == t

\* `drop(protocol)` after StopData, `drop(transport)` after an acknowledged
\* SET_ROLE or SET_PROFILE: the port is closed before the wait for the device.
drop_before_wait(t) == DropTransport(t)

\* A send_and_wait_ack whose exhausted retries fall through to the end of the loop.
SendAckFailureEscalated(e) == IF is_retriable(e) THEN "MaxRetriesExceeded" ELSE e

\* A send_and_wait_ack that reports a transport failure as a disconnection.
SendAckFailureDisconnected(e) == IF e = "Io" THEN "DeviceDisconnected" ELSE e

\* The error send_and_wait_ack returns when an attempt failed with `e` and
\* no further attempt is made (`Err(e) => return Err(e)`).
SendAckFailure(e) == e

\* ------------------------------------------------- outcomes of the I/O
\* read_firmware_zip: the file cannot be opened or read; the archive has no
\* manifest.json; the archive has no member of the name the manifest gives as
\* dat_file, here bootloader.dat.
ReadPackageErrors == {"Io", "MissingFile", "MissingDatFile"}
OpenErrors == {"PortPermissionDenied", "NoDeviceFound"}
WriteErrors == {"Io"}
\* What one wait_for_ack can fail with through the DfuTransport trait and the decoder.
WaitErrors == {"Timeout", "Io", "CrcMismatch", "SequenceMismatch", "InvalidSlipEscape"}
RoleErrors == {"RoleConfigTimeout", "RoleConfigError", "BootloaderTimeout"}

\* ------------------------------------------------------------------ state
\* No device snapshot is held; no reset of the device was made.
NoDevice == [kind |-> "none"]
NoIdentifier == [kind |-> "none"]
NoEntry == [reset |-> "none", wait_for |-> NoIdentifier]

InitCall ==
    [pc |-> "idle", attempt |-> 0, result |-> "none", engErr |-> "none",
     fwLen |-> 0, transport |-> "none", cur |-> "none",
     txAttempt |-> 0, txPrevErr |-> "none", txErr |-> "none", sent |-> 0,
     pktNo |-> 0, sentMax |-> 0, stopSent |-> FALSE, seq |-> 0, stages |-> <<>>,
     slip |-> "reset", txLog |-> <<>>, device |-> NoDevice, entry |-> NoEntry]

InitObs == [ran |-> FALSE, cancelSeen |-> FALSE]

\* A component that is not running.
Off == [pc |-> "off"]

Init ==
    /\ DFU_IN_PROGRESS = FALSE
    /\ DFU_CANCELLED = FALSE
    /\ SEQUENCE_NUMBER = 0
    /\ call = [c \in Calls |-> InitCall]
    /\ wire = <<>>
    /\ acks = <<>>
    /\ devAcked = {}
    /\ obs = [c \in Calls |-> InitObs]
    /\ rx = Off
    /\ fw = Off
    /\ fwd = Off
    /\ scan = Off
    /\ rt = Off
    /\ prof = Off
    /\ conf = Off
    /\ sq = Off
    /\ dec = Off
    /\ hdr = Off
    /\ seen = Off
    /\ role = Off

Active(c) == call[c].pc \notin {"idle", "done"}

EnginePcs ==
    {"read_package", "get_device", "enter_bootloader", "wait_bootloader", "connect",
     "start_dfu", "erase_wait", "init_packet", "data", "stop_data", "reboot_wait",
     "configure_role", "tx_send", "tx_wait"}

InEngine(c) == call[c].pc \in EnginePcs

\* ------------------------------------------------------------ coordinator
\* flash_dfu_firmware, up to the retry loop. The frontend may invoke the
\* command again once an earlier invocation has returned.
Flash(c) ==
    /\ call[c].pc \in {"idle", "done"}
    /\ IF Admitted(DFU_IN_PROGRESS)
       THEN /\ DFU_IN_PROGRESS' = TRUE
            /\ DFU_CANCELLED' = ResetAtAdmission(DFU_CANCELLED)
            /\ call' = [call EXCEPT ![c] = [InitCall EXCEPT !.pc = "attempt"]]
            /\ obs' = [obs EXCEPT ![c] = InitObs]
       ELSE /\ DFU_IN_PROGRESS' = Rejected(DFU_IN_PROGRESS)
            /\ call' = [call EXCEPT ![c] =
                  [InitCall EXCEPT !.pc = "done", !.result = "AlreadyInProgress"]]
            /\ obs' = [obs EXCEPT ![c] = InitObs]
            /\ UNCHANGED DFU_CANCELLED
    /\ UNCHANGED <<SEQUENCE_NUMBER, wire, acks, devAcked>>
    /\ UNCHANGED parts

\* flash_dfu_firmware returns `res`: its locals are gone, the DfuGuard is dropped.
Finish(c, res) ==
    /\ call' = [call EXCEPT ![c] = [InitCall EXCEPT !.pc = "done", !.result = res]]
    /\ obs' = [obs EXCEPT ![c] = [InitObs EXCEPT !.ran = obs[c].ran]]
    /\ DFU_IN_PROGRESS' = DfuGuardDrop(DFU_IN_PROGRESS)

\* Head of the retry loop: the cancellation check, then flash_dfu_firmware_inner
\* hands upload_firmware to a blocking worker.
AttemptStart(c) ==
    /\ call[c].pc = "attempt"
    /\ IF DFU_CANCELLED
       THEN Finish(c, "Cancelled")
       ELSE /\ call' = [call EXCEPT ![c] =
                    [InitCall EXCEPT !.pc = "read_package", !.attempt = call[c].attempt]]
            /\ obs' = [obs EXCEPT ![c].ran = TRUE]
            /\ UNCHANGED DFU_IN_PROGRESS
    /\ UNCHANGED <<DFU_CANCELLED, SEQUENCE_NUMBER, wire, acks, devAcked>>
    /\ UNCHANGED parts

\* The `match result` of the retry loop.
InnerReturn(c) ==
    /\ call[c].pc = "inner_ret"
    /\ IF call[c].engErr = "Ok"
       THEN Finish(c, "Ok")
       ELSE IF is_operation_retriable(Display(call[c].engErr))
               /\ call[c].attempt < MAX_OPERATION_RETRIES
            THEN /\ call' = [call EXCEPT ![c] =
                       [InitCall EXCEPT !.pc = "retry_sleep", !.attempt = call[c].attempt]]
                 /\ UNCHANGED <<DFU_IN_PROGRESS, obs>>
            ELSE Finish(c, call[c].engErr)
    /\ UNCHANGED <<DFU_CANCELLED, SEQUENCE_NUMBER, wire, acks, devAcked>>
    /\ UNCHANGED parts

\* The sleep before a retry is over: the flag is reset and the loop continues.
RetryWake(c) ==
    /\ call[c].pc = "retry_sleep"
    /\ DFU_CANCELLED' = ResetForRetry(DFU_CANCELLED)
    /\ call' = [call EXCEPT ![c].pc = "attempt", ![c].attempt = @ + 1]
    /\ UNCHANGED <<DFU_IN_PROGRESS, SEQUENCE_NUMBER, wire, acks, devAcked, obs>>
    /\ UNCHANGED parts

\* cancel_dfu_flash
CancelDfuFlash ==
    /\ DFU_CANCELLED' = TRUE
    /\ obs' = [c \in Calls |->
                 IF Active(c) THEN [obs[c] EXCEPT !.cancelSeen = TRUE] ELSE obs[c]]
    /\ UNCHANGED <<DFU_IN_PROGRESS, SEQUENCE_NUMBER, call, wire, acks, devAcked>>
    /\ UNCHANGED parts

\* ----------------------------------------------------------------- engine
\* upload_firmware returns `err` ("Ok" on success): the session, if any, is dropped.
Returned(cc, err) ==
    [cc EXCEPT !.pc = "inner_ret", !.engErr = err, !.transport = DropTransport(@)]

Return(c, cc, err) ==
    /\ call' = [call EXCEPT ![c] = Returned(cc, err)]
    /\ IF cc.transport = "open"
       THEN wire' = <<>> /\ acks' = <<>> /\ devAcked' = {}
       ELSE UNCHANGED <<wire, acks, devAcked>>

\* A cancellation that returns without announcing it.
CancelReturnSilent(c) == Return(c, call[c], "Cancelled")

\* `on_progress(DfuStage::Cancelled); return Err(DfuError::Cancelled)`
CancelReturn(c) == Return(c, Emit(call[c], Stage("Cancelled")), "Cancelled")

\* build_hci_packet: the next packet of the session takes the next sequence number.
Build(cc, step) ==
    [cc EXCEPT !.pc = "tx_send", !.cur = step, !.pktNo = @ + 1,
               !.seq = next_sequence_number(SEQUENCE_NUMBER),
               !.txAttempt = 0, !.txPrevErr = "none", !.txLog = <<>>]

\* Step 1: read_firmware_zip.
ReadPackage(c) ==
    /\ call[c].pc = "read_package"
    /\ LET cc == Emit(call[c], Stage(StageOf("read_package"))) IN
       \/ \E e \in ReadPackageErrors : Return(c, cc, e)
       \/ \E len \in FwSizes :
            /\ call' = [call EXCEPT ![c] = [cc EXCEPT !.pc = "get_device", !.fwLen = len]]
            /\ UNCHANGED <<wire, acks, devAcked>>
    /\ UNCHANGED <<DFU_IN_PROGRESS, DFU_CANCELLED, SEQUENCE_NUMBER, obs>>
    /\ UNCHANGED parts

\* What get_device_by_port finds at the port, as far as the engine looks at
\* it: the mode of the device and its serial number, if it has one.
Snapshots == [in_bootloader : BOOLEAN, serial_number : {"none", "S1"}]

\* DeviceIdentifier::from_device
from_device(device) ==
    IF device.serial_number # "none"
    THEN [kind |-> "Serial", serial |-> device.serial_number]
    ELSE [kind |-> "VidPidPort"]

\* An entry that touches the port at 1200 baud whatever the mode.
touch_always(already_in_bootloader) == "touch_reset"

\* `if already_in_bootloader { reset_bootloader } else { touch_reset }`
reset_for(already_in_bootloader) ==
    IF already_in_bootloader THEN "reset_bootloader" ELSE "touch_reset"

\* Step 2: the check after reading, get_device_by_port, DetectedDevice.
GetDevice(c) ==
    /\ call[c].pc = "get_device"
    /\ IF Gate("get_device")
       THEN CancelReturn(c)
       ELSE \/ Return(c, call[c], "NoDeviceFound")
            \/ /\ \E device \in Snapshots :
                    call' = [call EXCEPT ![c] =
                       [Emit(call[c], Stage(StageOf("get_device")))
                           EXCEPT !.pc = "enter_bootloader", !.device = device]]
               /\ UNCHANGED <<wire, acks, devAcked>>
    /\ UNCHANGED <<DFU_IN_PROGRESS, DFU_CANCELLED, SEQUENCE_NUMBER, obs>>
    /\ UNCHANGED parts

\* Step 3: reset_bootloader or touch_reset by the mode found, then
\* WaitingForBootloader. `entry` is the reset made and the identifier
\* wait_for_bootloader_flexible is called with.
EnterBootloader(c) ==
    /\ call[c].pc = "enter_bootloader"
    /\ IF Gate("enter_bootloader")
       THEN CancelReturn(c)
       ELSE LET cc == [Emit(call[c], Stage(StageOf("enter_bootloader"))) EXCEPT
                          !.device = NoDevice,
                          !.entry = [reset |-> reset_for(call[c].device.in_bootloader),
                                     wait_for |-> NoIdentifier]] IN
            \/ Return(c, cc, "Serial")
            \/ /\ call' = [call EXCEPT ![c] =
                     [Emit(cc, Stage(StageOf("wait_bootloader"))) EXCEPT
                         !.pc = "wait_bootloader",
                         !.entry.wait_for = from_device(call[c].device)]]
               /\ UNCHANGED <<wire, acks, devAcked>>
    /\ UNCHANGED <<DFU_IN_PROGRESS, DFU_CANCELLED, SEQUENCE_NUMBER, obs>>
    /\ UNCHANGED parts

\* wait_for_bootloader_flexible returns.
WaitBootloader(c) ==
    /\ call[c].pc = "wait_bootloader"
    /\ \/ Return(c, [call[c] EXCEPT !.entry = NoEntry], "BootloaderTimeout")
       \/ /\ call' = [call EXCEPT ![c].pc = "connect", ![c].entry = NoEntry]
          /\ UNCHANGED <<wire, acks, devAcked>>
    /\ UNCHANGED <<DFU_IN_PROGRESS, DFU_CANCELLED, SEQUENCE_NUMBER, obs>>
    /\ UNCHANGED parts

\* Step 4: SerialTransport::open (which clears the input buffer) and
\* HciDfuProtocol::new (which resets the sequence counter).
Connect(c) ==
    /\ call[c].pc = "connect"
    /\ IF Gate("connect")
       THEN CancelReturn(c) /\ UNCHANGED SEQUENCE_NUMBER
       ELSE LET cc == Emit(call[c], Stage(StageOf("connect"))) IN
            \/ /\ \E e \in OpenErrors : Return(c, cc, e)
               /\ UNCHANGED SEQUENCE_NUMBER
            \/ /\ call' = [call EXCEPT ![c] =
                     [cc EXCEPT !.pc = "start_dfu", !.transport = "open"]]
               /\ SEQUENCE_NUMBER' = reset_sequence_number
               /\ wire' = <<>>
               /\ acks' = <<>>
               /\ devAcked' = {}
    /\ UNCHANGED <<DFU_IN_PROGRESS, DFU_CANCELLED, obs>>
    /\ UNCHANGED parts

\* Step 5: Starting, verify_connection, build_start_dfu_packet.
StartDfu(c) ==
    /\ call[c].pc = "start_dfu"
    /\ IF Gate("start_dfu")
       THEN CancelReturn(c) /\ UNCHANGED SEQUENCE_NUMBER
       ELSE LET cc == Emit(call[c], Stage(StageOf("start_dfu"))) IN
            \/ /\ Return(c, cc, "DeviceDisconnected")
               /\ UNCHANGED SEQUENCE_NUMBER
            \/ /\ call' = [call EXCEPT ![c] = Build(cc, "start_dfu")]
               /\ SEQUENCE_NUMBER' = (SEQUENCE_NUMBER + 1) % 256
               /\ UNCHANGED <<wire, acks, devAcked>>
    /\ UNCHANGED <<DFU_IN_PROGRESS, DFU_CANCELLED, obs>>
    /\ UNCHANGED parts

\* wait_with_drain after StartDfu: whatever arrived is read and discarded.
EraseWait(c) ==
    /\ call[c].pc = "erase_wait"
    /\ call' = [call EXCEPT ![c].pc = "init_packet"]
    /\ acks' = <<>>
    /\ UNCHANGED <<DFU_IN_PROGRESS, DFU_CANCELLED, SEQUENCE_NUMBER, wire, devAcked, obs>>
    /\ UNCHANGED parts

\* Step 6: SendingInit, build_init_packet.
InitPacket(c) ==
    /\ call[c].pc = "init_packet"
    /\ IF Gate("init_packet")
       THEN CancelReturn(c) /\ UNCHANGED SEQUENCE_NUMBER
       ELSE /\ call' = [call EXCEPT ![c] =
                  Build(Emit(call[c], Stage(StageOf("init_packet"))), "init_packet")]
            /\ SEQUENCE_NUMBER' = (SEQUENCE_NUMBER + 1) % 256
            /\ UNCHANGED <<wire, acks, devAcked>>
    /\ UNCHANGED <<DFU_IN_PROGRESS, DFU_CANCELLED, obs>>
    /\ UNCHANGED parts

\* Step 7, one iteration of send_firmware: the check, build_firmware_data_packet.
\* On Cancelled upload_firmware emits the Cancelled stage and returns.
DataChunk(c) ==
    /\ call[c].pc = "data"
    /\ IF Gate("data")
       THEN CancelReturn(c) /\ UNCHANGED SEQUENCE_NUMBER
       ELSE /\ call' = [call EXCEPT ![c] = Build(call[c], "data")]
            /\ SEQUENCE_NUMBER' = (SEQUENCE_NUMBER + 1) % 256
            /\ UNCHANGED <<wire, acks, devAcked>>
    /\ UNCHANGED <<DFU_IN_PROGRESS, DFU_CANCELLED, obs>>
    /\ UNCHANGED parts

\* Step 8: Finalizing, build_stop_data_packet.
StopData(c) ==
    /\ call[c].pc = "stop_data"
    /\ IF Gate("stop_data")
       THEN CancelReturn(c) /\ UNCHANGED SEQUENCE_NUMBER
       ELSE /\ call' = [call EXCEPT ![c] =
                  Build(Emit(call[c], Stage(StageOf("stop_data"))), "stop_data")]
            /\ SEQUENCE_NUMBER' = (SEQUENCE_NUMBER + 1) % 256
            /\ UNCHANGED <<wire, acks, devAcked>>
    /\ UNCHANGED <<DFU_IN_PROGRESS, DFU_CANCELLED, obs>>
    /\ UNCHANGED parts

\* Step 9: WaitingForReboot, wait_for_application_flexible.
RebootWait(c) ==
    /\ call[c].pc = "reboot_wait"
    /\ IF Gate("reboot_wait")
       THEN CancelReturn(c)
       ELSE LET cc == Emit(call[c], Stage(StageOf("reboot_wait"))) IN
            \/ Return(c, cc, "BootloaderTimeout")
            \/ /\ call' = [call EXCEPT ![c] = [cc EXCEPT !.pc = "configure_role"]]
               /\ UNCHANGED <<wire, acks, devAcked>>
    /\ UNCHANGED <<DFU_IN_PROGRESS, DFU_CANCELLED, SEQUENCE_NUMBER, obs>>
    /\ UNCHANGED parts

\* Steps 10 and 11: ConfiguringRole, configure_device_role_flexible (which opens
\* the application port, writes the SET_ROLE command and closes it), Complete.
ConfigureRole(c) ==
    /\ call[c].pc = "configure_role"
    /\ IF Gate("configure_role")
       THEN CancelReturn(c)
       ELSE LET cc == Emit(call[c], Stage(StageOf("configure_role"))) IN
            \/ \E e \in RoleErrors : Return(c, cc, e)
            \/ Return(c, Emit(cc, Stage(StageOf("complete"))), "Ok")
    /\ UNCHANGED <<DFU_IN_PROGRESS, DFU_CANCELLED, SEQUENCE_NUMBER, obs>>
    /\ UNCHANGED parts

\* The blocking worker panics: the JoinError becomes "DFU task panicked: ...".
Panic(c) ==
    /\ InEngine(c)
    /\ Return(c, call[c], "Panicked")
    /\ UNCHANGED <<DFU_IN_PROGRESS, DFU_CANCELLED, SEQUENCE_NUMBER, obs>>
    /\ UNCHANGED parts

\* ------------------------------------------------- per-packet reliability
Min(a, b) == IF a < b THEN a ELSE b

\* A retry that leaves the SLIP decoder as the failed wait left it.
RetryResetSkipped(slip) == slip

\* `self.slip_decoder.reset()` before the packet is sent again.
RetryReset(slip) == "reset"

\* One attempt of send_and_wait_ack failed with `e`: the match arms of the loop.
TxFail(c, e) ==
    IF is_retriable(e) /\ call[c].txAttempt < MAX_PACKET_RETRIES
    THEN /\ call' = [call EXCEPT ![c].pc = "tx_send", ![c].txAttempt = @ + 1,
                                 ![c].txPrevErr = e, ![c].slip = RetryReset(@)]
         /\ UNCHANGED <<wire, acks, devAcked>>
    ELSE Return(c, [call[c] EXCEPT !.txErr = e], SendAckFailure(e))

\* send_and_wait_ack_once, first half: transport.write(packet).
TxSend(c) ==
    /\ call[c].pc = "tx_send"
    /\ \/ /\ Len(wire) + Len(acks) < MaxLag
          /\ wire' = Append(wire, call[c].pktNo)
          /\ call' = [call EXCEPT ![c].pc = "tx_wait", ![c].txPrevErr = "none",
                                  ![c].slip = "used",
                                  ![c].txLog = Append(@, [pkt |-> call[c].pktNo,
                                                          seq |-> call[c].seq,
                                                          slip |-> call[c].slip]),
                                  ![c].sentMax = call[c].pktNo,
                                  ![c].stopSent = @ \/ (call[c].cur = "stop_data")]
          /\ UNCHANGED <<acks, devAcked>>
       \/ \E e \in WriteErrors : TxFail(c, e)
    /\ UNCHANGED <<DFU_IN_PROGRESS, DFU_CANCELLED, SEQUENCE_NUMBER, obs>>
    /\ UNCHANGED parts

\* What follows the Ok of send_and_wait_ack in upload_firmware / send_firmware.
AfterAck(cc) ==
    CASE cc.cur = "start_dfu" -> [cc EXCEPT !.pc = "erase_wait"]
      [] cc.cur = "init_packet" ->
            [cc EXCEPT !.pc = IF cc.fwLen = 0 THEN "stop_data" ELSE "data", !.sent = 0]
      [] cc.cur = "data" ->
            LET n == Min(cc.sent + FIRMWARE_CHUNK_SIZE, cc.fwLen) IN
            [Emit(cc, Uploading(n)) EXCEPT
                !.sent = n, !.pc = IF n < cc.fwLen THEN "data" ELSE "stop_data"]
      [] OTHER -> [cc EXCEPT !.pc = "reboot_wait", !.transport = drop_before_wait(@)]

\* wait_for_ack reads the first complete frame from the port: it is the ACK,
\* whatever it answers. Frames read in the same chunk after it are discarded.
TxAck(c) ==
    /\ call[c].pc = "tx_wait"
    /\ acks # <<>>
    /\ call' = [call EXCEPT ![c] = AfterAck(call[c])]
    /\ IF call[c].cur = "stop_data"
       THEN wire' = <<>> /\ acks' = <<>> /\ devAcked' = {}
       ELSE /\ \E n \in 1..Len(acks) : acks' = SubSeq(acks, n + 1, Len(acks))
            /\ UNCHANGED <<wire, devAcked>>
    /\ UNCHANGED <<DFU_IN_PROGRESS, DFU_CANCELLED, SEQUENCE_NUMBER, obs>>
    /\ UNCHANGED parts

\* wait_for_ack fails: no frame within ACK_TIMEOUT_MS, or a transport or decoder error.
TxWaitErr(c) ==
    /\ call[c].pc = "tx_wait"
    /\ \E e \in WaitErrors :
          /\ e = "Timeout" => acks = <<>>
          /\ TxFail(c, e)
    /\ UNCHANGED <<DFU_IN_PROGRESS, DFU_CANCELLED, SEQUENCE_NUMBER, obs>>
    /\ UNCHANGED parts

\* ------------------------------------------------------------- bootloader
\* The bootloader processes the oldest frame on the wire and acknowledges it.
DeviceAck ==
    /\ wire # <<>>
    /\ acks' = Append(acks, Head(wire))
    /\ wire' = Tail(wire)
    /\ devAcked' = devAcked \cup {Head(wire)}
    /\ UNCHANGED <<DFU_IN_PROGRESS, DFU_CANCELLED, SEQUENCE_NUMBER, call, obs>>
    /\ UNCHANGED parts

\* The oldest frame on the wire is lost or arrives damaged: the bootloader
\* discards it and sends nothing.
DeviceDrop ==
    /\ wire # <<>>
    /\ wire' = Tail(wire)
    /\ UNCHANGED <<DFU_IN_PROGRESS, DFU_CANCELLED, SEQUENCE_NUMBER, call, acks, devAcked, obs>>
    /\ UNCHANGED parts

\* ------------------------------------------------------------------- spec
Next ==
    \/ \E c \in Calls : Flash(c)
    \/ \E c \in Calls : AttemptStart(c)
    \/ \E c \in Calls : InnerReturn(c)
    \/ \E c \in Calls : RetryWake(c)
    \/ CancelDfuFlash
    \/ \E c \in Calls : ReadPackage(c)
    \/ \E c \in Calls : GetDevice(c)
    \/ \E c \in Calls : EnterBootloader(c)
    \/ \E c \in Calls : WaitBootloader(c)
    \/ \E c \in Calls : Connect(c)
    \/ \E c \in Calls : StartDfu(c)
    \/ \E c \in Calls : EraseWait(c)
    \/ \E c \in Calls : InitPacket(c)
    \/ \E c \in Calls : DataChunk(c)
    \/ \E c \in Calls : StopData(c)
    \/ \E c \in Calls : RebootWait(c)
    \/ \E c \in Calls : ConfigureRole(c)
    \/ \E c \in Calls : Panic(c)
    \/ \E c \in Calls : TxSend(c)
    \/ \E c \in Calls : TxAck(c)
    \/ \E c \in Calls : TxWaitErr(c)
    \/ DeviceAck
    \/ DeviceDrop

Spec == Init /\ [][Next]_vars

\* ------------------------------------------- the coordinator left at rest
\* The state of the coordinator and of the link in every specification of a
\* single component: no call was made.
Quiet ==
    /\ DFU_IN_PROGRESS = FALSE
    /\ DFU_CANCELLED = FALSE
    /\ SEQUENCE_NUMBER = 0
    /\ call = [c \in Calls |-> InitCall]
    /\ wire = <<>>
    /\ acks = <<>>
    /\ devAcked = {}
    /\ obs = [c \in Calls |-> InitObs]

main == <<DFU_IN_PROGRESS, DFU_CANCELLED, SEQUENCE_NUMBER, call, wire, acks, devAcked, obs>>

\* ------------------------------------- wait_for_ack and the HciSlipDecoder
\* The bytes the serial link delivers: the four SLIP bytes and three ordinary
\* bytes whose bits 3-5 are 1, 7 and 0.
RxBytes == {SLIP_END, SLIP_ESC, SLIP_ESC_END, SLIP_ESC_ESC, 8, 56, 66}

\* SerialTransport::read fails when the timeout cannot be set (Serial) or the
\* port read fails (Io); a read that times out returns 0 bytes.
RxReadErrors == {"Serial", "Io"}

\* A Vec<u8> of the decoder, kept as its first byte and its length: the only
\* parts of it the program reads (HciAck::parse reads data[0], the overflow
\* check reads len()). Where the content of a frame is looked at, the first
\* `keep` bytes are kept as well.
EmptyBuffer == [first |-> -1, len |-> 0, head |-> <<>>, keep |-> 0]

push(buffer, byte) ==
    [buffer EXCEPT !.first = IF buffer.len = 0 THEN byte ELSE @,
                   !.len = @ + 1,
                   !.head = IF buffer.len < buffer.keep THEN Append(@, byte) ELSE @]

\* Vec::clear, and what std::mem::take leaves behind.
clear(buffer) == [EmptyBuffer EXCEPT !.keep = buffer.keep]

NewDecoder == [buffer |-> EmptyBuffer, escape_next |-> FALSE, in_frame |-> FALSE]

\* A reset that forgets the buffer but not the pending escape.
reset_keeps_escape(d) ==
    [buffer |-> clear(d.buffer), escape_next |-> d.escape_next, in_frame |-> FALSE]

reset(d) == [buffer |-> clear(d.buffer), escape_next |-> FALSE, in_frame |-> FALSE]

\* An overflow check that lets one more byte in.
OverflowsLate(len) == len > MAX_SLIP_FRAME_SIZE

\* "Check buffer overflow before adding any byte".
Overflows(len) == len >= MAX_SLIP_FRAME_SIZE

\* HciSlipDecoder::feed: the decoder after the byte, and what feed returns.
feed(d, byte) ==
    IF byte = SLIP_END
    THEN IF d.in_frame /\ d.buffer.len # 0
         THEN [dec |-> [buffer |-> clear(d.buffer), escape_next |-> FALSE, in_frame |-> FALSE],
               out |-> [kind |-> "Frame", frame |-> d.buffer]]
         ELSE [dec |-> [buffer |-> clear(d.buffer), escape_next |-> FALSE, in_frame |-> TRUE],
               out |-> [kind |-> "None"]]
    ELSE LET e == [d EXCEPT !.in_frame = TRUE] IN
         IF Overflows(e.buffer.len)
         THEN [dec |-> reset(e),
               out |-> [kind |-> "Err", err |-> "SlipBufferOverflow",
                        size |-> e.buffer.len, max_size |-> MAX_SLIP_FRAME_SIZE]]
         ELSE IF e.escape_next
         THEN IF byte = SLIP_ESC_END
              THEN [dec |-> [e EXCEPT !.buffer = push(e.buffer, SLIP_END), !.escape_next = FALSE],
                    out |-> [kind |-> "None"]]
              ELSE IF byte = SLIP_ESC_ESC
              THEN [dec |-> [e EXCEPT !.buffer = push(e.buffer, SLIP_ESC), !.escape_next = FALSE],
                    out |-> [kind |-> "None"]]
              ELSE [dec |-> reset(e),
                    out |-> [kind |-> "Err", err |-> "InvalidSlipEscape"]]
         ELSE IF byte = SLIP_ESC
         THEN [dec |-> [e EXCEPT !.escape_next = TRUE], out |-> [kind |-> "None"]]
         ELSE [dec |-> [e EXCEPT !.buffer = push(e.buffer, byte)], out |-> [kind |-> "None"]]

\* A parser that accepts only the ACK of the packet the host sent.
parse_in_sequence(data) ==
    IF data.len = 0
    THEN [kind |-> "Err", err |-> "IncompleteSlipFrame"]
    ELSE IF (data.first \div 8) % 8 # next_sequence_number(SEQUENCE_NUMBER)
    THEN [kind |-> "Err", err |-> "SequenceMismatch"]
    ELSE [kind |-> "Ok", ack_number |-> (data.first \div 8) % 8]

\* HciAck::parse: the ACK number is bits 3-5 of byte 0.
parse(data) ==
    IF data.len = 0
    THEN [kind |-> "Err", err |-> "IncompleteSlipFrame"]
    ELSE [kind |-> "Ok", ack_number |-> (data.first \div 8) % 8]

InitRx == [pc |-> "idle", dec |-> NewDecoder, frame |-> EmptyBuffer, result |-> [kind |-> "None"]]

\* wait_for_ack is entered: the decoder is reset and the timer started.
WaitForAck ==
    /\ rx.pc \in {"idle", "done"}
    /\ rx' = [pc |-> "read", dec |-> reset(rx.dec), frame |-> EmptyBuffer, result |-> [kind |-> "None"]]
    /\ UNCHANGED <<main, fw, fwd, scan, rt, prof, conf, sq, dec, hdr, seen, role>>

\* One byte of a chunk the transport has read is fed to the decoder; the first
\* thing the decoder returns ends the wait: an error is returned as it is, a
\* frame is handed to HciAck::parse.
RxByte ==
    /\ rx.pc = "read"
    /\ \E byte \in RxBytes :
        LET r == feed(rx.dec, byte) IN
        rx' = IF r.out.kind = "None"
              THEN [rx EXCEPT !.dec = r.dec]
              ELSE IF r.out.kind = "Err"
              THEN [rx EXCEPT !.pc = "done", !.dec = r.dec,
                              !.result = [kind |-> "Err", err |-> r.out.err]]
              ELSE [rx EXCEPT !.pc = "done", !.dec = r.dec, !.frame = r.out.frame,
                              !.result = parse(r.out.frame)]
    /\ UNCHANGED <<main, fw, fwd, scan, rt, prof, conf, sq, dec, hdr, seen, role>>

\* transport.read fails.
RxReadErr ==
    /\ rx.pc = "read"
    /\ \E e \in RxReadErrors :
        rx' = [rx EXCEPT !.pc = "done", !.result = [kind |-> "Err", err |-> e]]
    /\ UNCHANGED <<main, fw, fwd, scan, rt, prof, conf, sq, dec, hdr, seen, role>>

\* ACK_TIMEOUT_MS have elapsed when the loop condition is evaluated, which is
\* between two chunks: after any number of bytes.
RxTimeout ==
    /\ rx.pc = "read"
    /\ rx' = [rx EXCEPT !.pc = "done", !.result = [kind |-> "Err", err |-> "Timeout"]]
    /\ UNCHANGED <<main, fw, fwd, scan, rt, prof, conf, sq, dec, hdr, seen, role>>

InitAck ==
    /\ Quiet
    /\ rx = InitRx
    /\ fw = Off
    /\ fwd = Off
    /\ scan = Off
    /\ rt = Off
    /\ prof = Off
    /\ conf = Off
    /\ sq = Off
    /\ dec = Off
    /\ hdr = Off
    /\ seen = Off
    /\ role = Off

NextAck ==
    \/ WaitForAck
    \/ RxByte
    \/ RxReadErr
    \/ RxTimeout

SpecAck == InitAck /\ [][NextAck]_vars

\* ------------------------------------------------------------ send_firmware
\* Lengths of the firmware image: around every multiple of the chunk size up
\* to MaxImage, and MaxImage itself.
ImageSizes ==
    {n \in 0..MaxImage :
        \/ n % FIRMWARE_CHUNK_SIZE \in {0, 1, FIRMWARE_CHUNK_SIZE - 1}
        \/ n = MaxImage}

\* An iterator that yields only whole chunks.
chunks_exact(pos, total) ==
    IF total - pos >= FIRMWARE_CHUNK_SIZE THEN FIRMWARE_CHUNK_SIZE ELSE 0

\* `firmware.chunks(FIRMWARE_CHUNK_SIZE)`: the length of the slice the iterator
\* yields at position `pos`; 0 when it is exhausted.
chunks(pos, total) == Min(FIRMWARE_CHUNK_SIZE, total - pos)

\* A counter that reports the length of the chunk just sent.
sent_last_chunk(sent, len) == len

\* `sent += chunk.len()`.
sent_add(sent, len) == sent + len

InitFw ==
    [pc |-> "idle", total |-> 0, pos |-> 0, chunk |-> 0, sent |-> 0, frames |-> 0,
     packets |-> <<>>, writes |-> 0, sleeps |-> {}, progress |-> <<>>,
     attempt |-> 0, retries |-> 0, result |-> "none"]

\* send_firmware is entered with a firmware of `total` bytes.
SendFirmware ==
    /\ fw.pc = "idle"
    /\ \E n \in ImageSizes : fw' = [fw EXCEPT !.pc = "next", !.total = n]
    /\ UNCHANGED <<main, rx, fwd, scan, rt, prof, conf, sq, dec, hdr, seen, role>>

\* The head of the loop: the iterator is exhausted and the function returns
\* Ok, or the flag is set and it returns Cancelled, or the next chunk is built
\* into a DATA packet and handed to send_and_wait_ack.
FwNextChunk ==
    /\ fw.pc = "next"
    /\ LET len == chunks(fw.pos, fw.total) IN
       fw' = IF len = 0
             THEN [fw EXCEPT !.pc = "done", !.result = "Ok"]
             ELSE IF DFU_CANCELLED
             THEN [fw EXCEPT !.pc = "done", !.result = "Cancelled"]
             ELSE [fw EXCEPT !.pc = "send", !.chunk = len, !.pos = @ + len,
                             !.packets = Append(@, <<fw.pos, len>>),
                             !.attempt = 0]
    /\ UNCHANGED <<main, rx, fwd, scan, rt, prof, conf, sq, dec, hdr, seen, role>>

\* One attempt of send_and_wait_ack writes the packet and the ACK arrives:
\* the counters advance, progress is reported, and after the 8th frame of a
\* flash page the thread sleeps.
FwAcked ==
    /\ fw.pc = "send"
    /\ LET s == sent_add(fw.sent, fw.chunk)
           f == fw.frames + 1
       IN fw' = [fw EXCEPT !.pc = "next",
                           !.writes = @ + 1,
                           !.sent = s,
                           !.progress = Append(@, [sent |-> s, total |-> fw.total]),
                           !.frames = IF f = FRAMES_PER_FLASH_PAGE THEN 0 ELSE f,
                           !.sleeps = IF f = FRAMES_PER_FLASH_PAGE
                                      THEN @ \cup {Len(fw.packets)} ELSE @]
    /\ UNCHANGED <<main, rx, fwd, scan, rt, prof, conf, sq, dec, hdr, seen, role>>

\* One attempt fails: a retriable error with retries left makes another
\* attempt with the same packet, any other ends send_firmware.
FwAttemptFailed ==
    /\ fw.pc = "send"
    /\ \E e \in WriteErrors \cup WaitErrors :
        fw' = IF is_retriable(e) /\ fw.attempt < MAX_PACKET_RETRIES
              THEN [fw EXCEPT !.attempt = @ + 1, !.retries = @ + 1,
                              !.writes = IF e \in WriteErrors THEN @ ELSE @ + 1]
              ELSE [fw EXCEPT !.pc = "done", !.result = SendAckFailure(e),
                              !.writes = IF e \in WriteErrors THEN @ ELSE @ + 1]
    /\ UNCHANGED <<main, rx, fwd, scan, rt, prof, conf, sq, dec, hdr, seen, role>>

\* cancel_dfu_flash while send_firmware runs.
FwCancel ==
    /\ fw.pc \in {"next", "send"}
    /\ ~DFU_CANCELLED
    /\ CancelDfuFlash

InitSend ==
    /\ Quiet
    /\ rx = Off
    /\ fw = InitFw
    /\ fwd = Off
    /\ scan = Off
    /\ rt = Off
    /\ prof = Off
    /\ conf = Off
    /\ sq = Off
    /\ dec = Off
    /\ hdr = Off
    /\ seen = Off
    /\ role = Off

NextSend ==
    \/ SendFirmware
    \/ FwNextChunk
    \/ FwAcked
    \/ FwAttemptFailed
    \/ FwCancel

SpecSend == InitSend /\ [][NextSend]_vars

\* ------------------------------------------------- one caller, scheduled
\* Every step of the invocation `c`.
CallStep(c) ==
    \/ Flash(c)
    \/ AttemptStart(c)
    \/ InnerReturn(c)
    \/ RetryWake(c)
    \/ ReadPackage(c)
    \/ GetDevice(c)
    \/ EnterBootloader(c)
    \/ WaitBootloader(c)
    \/ Connect(c)
    \/ StartDfu(c)
    \/ EraseWait(c)
    \/ InitPacket(c)
    \/ DataChunk(c)
    \/ StopData(c)
    \/ RebootWait(c)
    \/ ConfigureRole(c)
    \/ Panic(c)
    \/ TxSend(c)
    \/ TxAck(c)
    \/ TxWaitErr(c)

NextOne ==
    \/ CallStep("first")
    \/ CancelDfuFlash
    \/ DeviceAck
    \/ DeviceDrop

\* A single frontend invoking the command again and again. The async runtime
\* and the blocking worker keep running, and every wait of the command is
\* bounded by a timeout: a call that can take a step eventually takes one.
SpecOne == Init /\ [][NextOne]_vars /\ WF_vars(CallStep("first"))

\* ------------------------------ flash_dfu_firmware_inner and its forwarder
\* The pipeline of upload_firmware as the forwarder sees it: the steps in
\* order, with a firmware of two chunks.
FwdPipeline ==
    <<"read_package", "get_device", "enter_bootloader", "connect", "start_dfu",
      "init_packet", "data", "data", "stop_data", "reboot_wait", "configure_role">>

\* The stage a step reports through on_progress when it is done or under way.
FwdStageOf(step) == IF step = "data" THEN "Uploading" ELSE StageOf(step)

InitFwd ==
    [inner |-> "idle", worker |-> "none", step |-> 1, emitted |-> 0, queue |-> <<>>,
     forwarder |-> "none", frontend |-> "connected", delivered |-> <<>>,
     detected |-> "no", result |-> "none", command |-> "none", tx |-> "none"]

\* A command that joins the forwarder while it still holds its sender.
drop_tx_after_join(tx) == tx

\* `drop(tx)` of set_device_profile, "Close the sender to signal completion".
drop_tx(tx) == IF tx = "held" THEN "dropped" ELSE tx

\* `tx.send(stage)` in the worker's closure: the event is queued unless the
\* receiver is gone; the error of a failed send is ignored.
TxSendStage(f, stage) ==
    [f EXCEPT !.emitted = @ + 1,
              !.queue = IF f.forwarder = "recv"
                        THEN Append(@, [id |-> f.emitted + 1, stage |-> stage])
                        ELSE @]

\* flash_dfu_firmware_inner is entered: the channel is created, the forwarder
\* thread and the blocking worker are spawned.
FlashInner ==
    /\ fwd.inner = "idle"
    /\ fwd' = [fwd EXCEPT !.inner = "awaiting", !.worker = "running", !.forwarder = "recv",
                           !.command = "flash", !.tx = "moved"]
    /\ UNCHANGED <<main, rx, fw, scan, rt, prof, conf, sq, dec, hdr, seen, role>>

\* The worker starts its next pipeline step: with the flag set at a step that
\* polls it, Cancelled is reported and returned; otherwise the stage is
\* reported and the step fails or the worker moves on; after the last step
\* Complete is reported and Ok returned.
WorkerStep ==
    /\ fwd.worker = "running"
    /\ fwd.command = "flash"
    /\ LET step == FwdPipeline[fwd.step] IN
       IF Gate(step)
       THEN fwd' = [TxSendStage(fwd, "Cancelled") EXCEPT !.worker = "Cancelled"]
       ELSE LET f == TxSendStage(fwd, FwdStageOf(step)) IN
            \/ fwd' = [f EXCEPT !.worker = "Timeout"]
            \/ fwd' = IF fwd.step < Len(FwdPipeline)
                      THEN [f EXCEPT !.step = @ + 1]
                      ELSE [TxSendStage(f, StageOf("complete")) EXCEPT !.worker = "Ok"]
    /\ UNCHANGED <<main, rx, fw, scan, rt, prof, conf, sq, dec, hdr, seen, role>>

\* The worker panics.
WorkerPanic ==
    /\ fwd.worker = "running"
    /\ fwd' = [fwd EXCEPT !.worker = "Panicked"]
    /\ UNCHANGED <<main, rx, fw, scan, rt, prof, conf, sq, dec, hdr, seen, role>>

\* One iteration of the forwarder: `rx.recv()` returns the oldest event and
\* `progress_channel.send(event)` delivers it, or fails because the frontend is
\* gone: then the thread ends, dropping the receiver, and the forwarder of a
\* flash sets the flag before; `detected` tells whether the worker was still
\* running at that moment.
ForwardOne ==
    /\ fwd.forwarder = "recv"
    /\ fwd.queue # <<>>
    /\ IF fwd.frontend = "connected"
       THEN /\ fwd' = [fwd EXCEPT !.queue = Tail(@), !.delivered = Append(@, Head(fwd.queue))]
            /\ UNCHANGED DFU_CANCELLED
       ELSE /\ fwd' = [fwd EXCEPT !.queue = <<>>, !.forwarder = "ended",
                                  !.detected = IF fwd.worker = "running"
                                               THEN "running" ELSE "finished"]
            /\ DFU_CANCELLED' = IF fwd.command = "flash" THEN TRUE ELSE DFU_CANCELLED
    /\ UNCHANGED <<DFU_IN_PROGRESS, SEQUENCE_NUMBER, call, wire, acks, devAcked, obs>>
    /\ UNCHANGED <<rx, fw, scan, rt, prof, conf, sq, dec, hdr, seen, role>>

\* `rx.recv()` fails: the queue is empty and every sender was dropped, those
\* of the worker's closure with the closure and the command's own, if it kept
\* one, by the command.
ForwarderEnd ==
    /\ fwd.forwarder = "recv"
    /\ fwd.queue = <<>>
    /\ fwd.worker \notin {"none", "running"}
    /\ fwd.tx # "held"
    /\ fwd' = [fwd EXCEPT !.forwarder = "ended"]
    /\ UNCHANGED <<main, rx, fw, scan, rt, prof, conf, sq, dec, hdr, seen, role>>

\* The await of the worker completes: a JoinError leaves the function through
\* `?` at once, dropping its locals; any other outcome goes on to join the
\* forwarder, set_device_profile after dropping its sender.
AwaitWorker ==
    /\ fwd.inner = "awaiting"
    /\ fwd.worker \notin {"none", "running"}
    /\ fwd' = IF fwd.worker = "Panicked"
              THEN [fwd EXCEPT !.inner = "returned", !.result = "Panicked",
                               !.tx = IF @ = "held" THEN "dropped" ELSE @]
              ELSE [fwd EXCEPT !.inner = "joining", !.tx = drop_tx(@)]
    /\ UNCHANGED <<main, rx, fw, scan, rt, prof, conf, sq, dec, hdr, seen, role>>

\* `progress_task.join()` returns and the worker's result is returned.
JoinForwarder ==
    /\ fwd.inner = "joining"
    /\ fwd.forwarder = "ended"
    /\ fwd' = [fwd EXCEPT !.inner = "returned", !.result = fwd.worker]
    /\ UNCHANGED <<main, rx, fw, scan, rt, prof, conf, sq, dec, hdr, seen, role>>

\* The frontend drops its end of the progress channel.
FrontendDisconnect ==
    /\ fwd.frontend = "connected"
    /\ fwd.inner # "idle"
    /\ fwd' = [fwd EXCEPT !.frontend = "gone"]
    /\ UNCHANGED <<main, rx, fw, scan, rt, prof, conf, sq, dec, hdr, seen, role>>

\* set_device_profile from the creation of its channel on: the forwarder
\* thread and the blocking worker are spawned, the worker with a clone of the
\* sender the command keeps.
SetDeviceProfileInner ==
    /\ fwd.inner = "idle"
    /\ fwd' = [fwd EXCEPT !.inner = "awaiting", !.worker = "running", !.forwarder = "recv",
                           !.command = "profile", !.tx = "held"]
    /\ UNCHANGED <<main, rx, fw, scan, rt, prof, conf, sq, dec, hdr, seen, role>>

\* The worker of set_device_profile: it reports "sending", runs
\* configure_device_with_settings and reports "rebooting" and "complete", or
\* "error", before it returns the result.
ProfileWorkerStep ==
    /\ fwd.worker = "running"
    /\ fwd.command = "profile"
    /\ IF fwd.step = 1
       THEN fwd' = [TxSendStage(fwd, "sending") EXCEPT !.step = 2]
       ELSE \/ fwd' = [TxSendStage(TxSendStage(fwd, "rebooting"), "complete")
                          EXCEPT !.worker = "Ok"]
            \/ \E e \in {"ProfileConfigFailed", "SettingConfigFailed", "BootloaderTimeout"} :
                  fwd' = [TxSendStage(fwd, "error") EXCEPT !.worker = e]
    /\ UNCHANGED <<main, rx, fw, scan, rt, prof, conf, sq, dec, hdr, seen, role>>

InitForward ==
    /\ Quiet
    /\ rx = Off
    /\ fw = Off
    /\ fwd = InitFwd
    /\ scan = Off
    /\ rt = Off
    /\ prof = Off
    /\ conf = Off
    /\ sq = Off
    /\ dec = Off
    /\ hdr = Off
    /\ seen = Off
    /\ role = Off

NextForward ==
    \/ FlashInner
    \/ WorkerStep
    \/ WorkerPanic
    \/ ForwardOne
    \/ ForwarderEnd
    \/ AwaitWorker
    \/ JoinForwarder
    \/ FrontendDisconnect

SpecForward == InitForward /\ [][NextForward]_vars

\* Either command with its forwarder.
NextJoin ==
    \/ NextForward
    \/ SetDeviceProfileInner
    \/ ProfileWorkerStep

\* The forwarder is a thread of its own and the command a task of the async
\* runtime: each runs when it can. `progress_channel.send` does not block, and
\* `rx.recv` returns as soon as an event is queued or the last sender is gone.
SpecJoin ==
    /\ InitForward
    /\ [][NextJoin]_vars
    /\ WF_vars(ForwardOne)
    /\ WF_vars(ForwarderEnd)
    /\ WF_vars(AwaitWorker)
    /\ WF_vars(JoinForwarder)

\* ------------- wait_for_bootloader_flexible, wait_for_application_flexible
\* What one enumeration scan finds of the device the identifier matches: it
\* is not enumerated, or it is in bootloader mode, or in application mode.
Sightings == {"absent", "bootloader", "application"}

\* `.find(|d| d.in_bootloader && identifier.matches(d))`, and with
\* `!d.in_bootloader` in wait_for_application_flexible.
Found(required, sighting) == sighting = required

\* A miss that leaves the count as it is.
miss_keeps(consecutive_detections) == consecutive_detections

\* `else { consecutive_detections = 0; }`
miss_resets(consecutive_detections) == 0

InitScan ==
    [pc |-> "idle", required |-> "none", consecutive_detections |-> 0,
     seen |-> <<>>, result |-> "none", device |-> "none"]

\* One of the two functions is called.
WaitForDevice ==
    /\ scan.pc = "idle"
    /\ \E required \in {"bootloader", "application"} :
        scan' = [scan EXCEPT !.pc = "loop", !.required = required]
    /\ UNCHANGED <<main, rx, fw, fwd, rt, prof, conf, sq, dec, hdr, seen, role>>

\* One iteration of the loop, entered with time left: the ports are
\* enumerated; a match counts and the second in a row returns the device, a
\* miss resets the count; then the thread sleeps PORT_SCAN_INTERVAL.
ScanOnce ==
    /\ scan.pc = "loop"
    /\ Len(scan.seen) < MaxScans
    /\ \E sighting \in Sightings :
        LET s == [scan EXCEPT !.seen = Append(@, sighting)] IN
        scan' = IF Found(scan.required, sighting)
                THEN IF scan.consecutive_detections + 1 >= REQUIRED_CONSECUTIVE
                     THEN [s EXCEPT !.consecutive_detections = @ + 1, !.pc = "done",
                                    !.result = "Ok", !.device = sighting]
                     ELSE [s EXCEPT !.consecutive_detections = @ + 1]
                ELSE [s EXCEPT !.consecutive_detections = miss_resets(@)]
    /\ UNCHANGED <<main, rx, fw, fwd, rt, prof, conf, sq, dec, hdr, seen, role>>

\* `start.elapsed() < timeout` is false at the head of the loop.
ScanTimeout ==
    /\ scan.pc = "loop"
    /\ scan' = [scan EXCEPT !.pc = "done", !.result = "BootloaderTimeout"]
    /\ UNCHANGED <<main, rx, fw, fwd, rt, prof, conf, sq, dec, hdr, seen, role>>

InitWait ==
    /\ Quiet
    /\ rx = Off
    /\ fw = Off
    /\ fwd = Off
    /\ scan = InitScan
    /\ rt = Off
    /\ prof = Off
    /\ conf = Off
    /\ sq = Off
    /\ dec = Off
    /\ hdr = Off
    /\ seen = Off
    /\ role = Off

NextWait ==
    \/ WaitForDevice
    \/ ScanOnce
    \/ ScanTimeout

SpecWait == InitWait /\ [][NextWait]_vars

\* ------------------------------------------------ slip::encode and decode
\* Bytes of the strings encoded: the four SLIP bytes and an ordinary one.
SlipBytes == {SLIP_END, SLIP_ESC, SLIP_ESC_END, SLIP_ESC_ESC, 66}

\* The byte strings of at most MaxBytes bytes.
ByteStrings == UNION {[1..n -> SlipBytes] : n \in 0..MaxBytes}

\* An encoder that escapes END only.
escape_end_only(byte) ==
    IF byte = SLIP_END THEN <<SLIP_ESC, SLIP_ESC_END>> ELSE <<byte>>

\* The match of encode: what one data byte is encoded as.
escape(byte) ==
    IF byte = SLIP_END THEN <<SLIP_ESC, SLIP_ESC_END>>
    ELSE IF byte = SLIP_ESC THEN <<SLIP_ESC, SLIP_ESC_ESC>>
    ELSE <<byte>>

RECURSIVE encode_from(_, _, _)
\* The loop of encode from data[i] on, `encoded` being what was pushed so far.
encode_from(data, i, encoded) ==
    IF i > Len(data) THEN encoded
    ELSE encode_from(data, i + 1, encoded \o escape(data[i]))

\* slip::encode: END, the escaped data, END.
encode(data) == Append(encode_from(data, 1, <<SLIP_END>>), SLIP_END)

RECURSIVE decode_from(_, _, _, _)
\* The loop of decode from data[i] on.
decode_from(data, i, decoded, escape_next) ==
    IF i > Len(data)
    THEN IF escape_next
         THEN [kind |-> "Err", err |-> "IncompleteSlipFrame"]
         ELSE [kind |-> "Ok", data |-> decoded]
    ELSE LET byte == data[i] IN
         IF byte = SLIP_END THEN decode_from(data, i + 1, decoded, escape_next)
         ELSE IF escape_next
         THEN IF byte = SLIP_ESC_END
              THEN decode_from(data, i + 1, Append(decoded, SLIP_END), FALSE)
              ELSE IF byte = SLIP_ESC_ESC
              THEN decode_from(data, i + 1, Append(decoded, SLIP_ESC), FALSE)
              ELSE [kind |-> "Err", err |-> "InvalidSlipEscape"]
         ELSE IF byte = SLIP_ESC
         THEN decode_from(data, i + 1, decoded, TRUE)
         ELSE decode_from(data, i + 1, Append(decoded, byte), FALSE)

\* slip::decode
decode(data) == decode_from(data, 1, <<>>, FALSE)

\* A byte string is encoded.
Encode ==
    /\ rt.pc = "input"
    /\ rt' = [rt EXCEPT !.pc = "encoded", !.encoded = encode(rt.b)]
    /\ UNCHANGED <<main, rx, fw, fwd, scan, prof, conf, sq, dec, hdr, seen, role>>

\* The encoded frame is decoded.
Decode ==
    /\ rt.pc = "encoded"
    /\ rt' = [rt EXCEPT !.pc = "decoded", !.decoded = decode(rt.encoded)]
    /\ UNCHANGED <<main, rx, fw, fwd, scan, prof, conf, sq, dec, hdr, seen, role>>

InitSlip ==
    /\ Quiet
    /\ rx = Off
    /\ fw = Off
    /\ fwd = Off
    /\ scan = Off
    /\ prof = Off
    /\ conf = Off
    /\ sq = Off
    /\ dec = Off
    /\ hdr = Off
    /\ seen = Off
    /\ role = Off
    /\ \E b \in ByteStrings :
        rt = [pc |-> "input", b |-> b, encoded |-> <<>>, decoded |-> [kind |-> "None"]]

NextSlip ==
    \/ Encode
    \/ Decode

SpecSlip == InitSlip /\ [][NextSlip]_vars

\* ------------------------------- set_device_profile beside a flash session
\* The bootloader is running on the device while a session holds its port.
BootloaderPcs ==
    {"connect", "start_dfu", "erase_wait", "init_packet", "data", "stop_data",
     "tx_send", "tx_wait"}

InBootloader == \E c \in Calls : call[c].pc \in BootloaderPcs

\* A flash session of this process has the serial port of the device open.
PortHeldByFlash == \E c \in Calls : call[c].transport = "open"

InitProf == [pc |-> "idle", port |-> "none", result |-> "none"]

\* set_device_profile is invoked: the device is looked up by its port and must
\* be in application mode. No flag of the process is read or written.
SetDeviceProfile ==
    /\ prof.pc \in {"idle", "done"}
    /\ \/ prof' = [pc |-> "done", port |-> "none", result |-> "Device not found"]
       \/ /\ InBootloader
          /\ prof' = [pc |-> "done", port |-> "none", result |-> "Device is in bootloader mode"]
       \/ /\ ~InBootloader
          /\ prof' = [pc |-> "open", port |-> "none", result |-> "none"]
    /\ UNCHANGED <<main, rx, fw, fwd, scan, rt, conf, sq, dec, hdr, seen, role>>

\* configure_device_with_settings opens the application port. The operating
\* system refuses a port that is open already.
ProfOpen ==
    /\ prof.pc = "open"
    /\ IF PortHeldByFlash
       THEN prof' = [prof EXCEPT !.pc = "done", !.result = "PortBusy"]
       ELSE \/ \E e \in OpenErrors : prof' = [prof EXCEPT !.pc = "done", !.result = e]
            \/ prof' = [prof EXCEPT !.pc = "dialog", !.port = "open"]
    /\ UNCHANGED <<main, rx, fw, fwd, scan, rt, conf, sq, dec, hdr, seen, role>>

\* The serial dialog of configure_device_with_settings ends: the transport is
\* dropped, and after a success the device reboots.
ProfDialog ==
    /\ prof.pc = "dialog"
    /\ \/ \E e \in {"DeviceDisconnected", "SettingConfigFailed", "ProfileConfigFailed", "Io"} :
            prof' = [pc |-> "done", port |-> "closed", result |-> e]
       \/ prof' = [prof EXCEPT !.pc = "reboot", !.port = "closed"]
    /\ UNCHANGED <<main, rx, fw, fwd, scan, rt, conf, sq, dec, hdr, seen, role>>

\* wait_for_application_flexible returns and the command with it.
ProfReboot ==
    /\ prof.pc = "reboot"
    /\ \E r \in {"Ok", "BootloaderTimeout"} : prof' = [prof EXCEPT !.pc = "done", !.result = r]
    /\ UNCHANGED <<main, rx, fw, fwd, scan, rt, conf, sq, dec, hdr, seen, role>>

\* A step of the flash command `c` that opens the port of the device cannot
\* succeed while set_device_profile holds it.
OpensPort(c) ==
    \/ call[c].transport # "open" /\ call'[c].transport = "open"
    \/ call[c].pc = "enter_bootloader" /\ call'[c].pc = "wait_bootloader"
    \/ call[c].pc = "configure_role" /\ call'[c].result \notin {"Cancelled"} \cup RoleErrors

FlashStep(c) == CallStep(c) /\ (prof.port = "open" => ~OpensPort(c))

InitProfile ==
    /\ Quiet
    /\ rx = Off
    /\ fw = Off
    /\ fwd = Off
    /\ scan = Off
    /\ rt = Off
    /\ prof = InitProf
    /\ conf = Off
    /\ sq = Off
    /\ dec = Off
    /\ hdr = Off
    /\ seen = Off
    /\ role = Off

NextProfile ==
    \/ FlashStep("first")
    \/ CancelDfuFlash
    \/ DeviceAck
    \/ DeviceDrop
    \/ SetDeviceProfile
    \/ ProfOpen
    \/ ProfDialog
    \/ ProfReboot

SpecProfile == InitProfile /\ [][NextProfile]_vars

\* --------------------------------------------- the configurator's dialog
\* What the device writes after a command, as the pieces of text the host
\* looks for; a read returns one or more of them at once.
SetTo(mode) == IF mode = "role" THEN "Role set to" ELSE "Profile set to"

Tokens(mode) == {"[SETTING]", "[ERROR]", "[CONFIG]", SetTo(mode)}

Chunks(mode, room) == UNION { [1..n -> Tokens(mode)] : n \in 1..room }

ConfigFailed(mode) == IF mode = "role" THEN "RoleConfigFailed" ELSE "ProfileConfigFailed"

ModeCommand(mode) ==
    IF mode = "role" THEN [name |-> "SET_ROLE", value |-> "PRIMARY"]
    ELSE [name |-> "SET_PROFILE", value |-> "REGULAR"]

AdvancedSettings == [disable_led_during_therapy : BOOLEAN, debug_mode : BOOLEAN]

\* AdvancedSettings::to_pre_profile_commands.
to_pre_profile_commands(s) ==
    << [name |-> "THERAPY_LED_OFF", value |-> s.disable_led_during_therapy],
       [name |-> "DEBUG", value |-> s.debug_mode] >>

\* A dialog that writes the last pending command first.
NextCommandLast(c) ==
    IF c.pending # <<>> THEN c.pending[Len(c.pending)] ELSE ModeCommand(c.mode)

\* The command the dialog writes next: the settings in list order, then the
\* mode command.
NextCommand(c) ==
    IF c.pending # <<>> THEN Head(c.pending) ELSE ModeCommand(c.mode)

\* The checks send_setting_command makes on the response accumulated so far.
SettingVerdict(response) ==
    IF contains(response, <<"[SETTING]">>) THEN "ack"
    ELSE IF contains(response, <<"[ERROR]">>) THEN "error"
    ELSE "none"

\* The checks the mode-command loops make on the response accumulated so far.
ModeVerdict(mode, response) ==
    IF contains(response, <<"[CONFIG]">>) /\ contains(response, <<SetTo(mode)>>) THEN "ack"
    ELSE IF contains(response, <<"[ERROR]">>) THEN "error"
    ELSE "none"

InitConf ==
    [pc |-> "idle", mode |-> "none", cmds |-> <<>>, pending |-> <<>>, log |-> <<>>,
     response |-> <<>>, port |-> "none", result |-> "none"]

ConfDone(c, res) == [c EXCEPT !.pc = "done", !.port = IF @ = "open" THEN "closed" ELSE @,
                              !.result = res]

\* configure_device_role_flexible / configure_device_with_settings up to the
\* first command: the name is matched, the port opened (and, for a profile,
\* its health checked), the boot output drained.
Configure ==
    /\ conf.pc \in {"idle", "done"}
    /\ \E mode \in {"role", "profile"} :
       \E cmds \in IF mode = "role" THEN {<<>>}
                   ELSE {<<>>} \cup {to_pre_profile_commands(s) : s \in AdvancedSettings} :
         LET c == [InitConf EXCEPT !.mode = mode, !.cmds = cmds, !.pending = cmds] IN
         \/ conf' = ConfDone(c, ConfigFailed(mode))
         \/ \E e \in OpenErrors : conf' = ConfDone(c, e)
         \/ /\ mode = "profile"
            /\ conf' = ConfDone([c EXCEPT !.port = "open"], "DeviceDisconnected")
         \/ \E e \in RxReadErrors : conf' = ConfDone([c EXCEPT !.port = "open"], e)
         \/ conf' = [c EXCEPT !.pc = "send", !.port = "open"]
    /\ UNCHANGED <<main, rx, fw, fwd, scan, rt, prof, sq, dec, hdr, seen, role>>

\* transport.write and flush of the next command; a fresh response buffer.
ConfWrite ==
    /\ conf.pc = "send"
    /\ \/ conf' = ConfDone(conf, "Io")
       \/ conf' = [conf EXCEPT !.pc = "wait", !.response = <<>>,
                               !.log = Append(@, [ev |-> "write", cmd |-> NextCommand(conf)])]
    /\ UNCHANGED <<main, rx, fw, fwd, scan, rt, prof, sq, dec, hdr, seen, role>>

\* The command in flight is resolved with `verdict`.
Resolve(c, verdict) ==
    LET d == [c EXCEPT !.log = Append(@, [ev |-> "reply", verdict |-> verdict])] IN
    IF c.pending # <<>>
    THEN IF verdict \in {"ack", "silence"}
         THEN [d EXCEPT !.pc = "send", !.pending = Tail(@)]
         ELSE ConfDone(d, "SettingConfigFailed")
    ELSE IF verdict = "ack"
         THEN [d EXCEPT !.pc = "reboot", !.port = drop_before_wait(@)]
         ELSE ConfDone(d, ConfigFailed(c.mode))

\* transport.read returns some bytes: they are appended to the response and
\* the response is searched for the markers.
ConfRead ==
    /\ conf.pc = "wait"
    /\ Len(conf.response) < MaxResponse
    /\ \E chunk \in Chunks(conf.mode, MaxResponse - Len(conf.response)) :
        LET c == [conf EXCEPT !.response = @ \o chunk]
            v == IF c.pending # <<>> THEN SettingVerdict(c.response)
                 ELSE ModeVerdict(c.mode, c.response)
        IN conf' = IF v = "none" THEN c ELSE Resolve(c, v)
    /\ UNCHANGED <<main, rx, fw, fwd, scan, rt, prof, sq, dec, hdr, seen, role>>

\* transport.read fails.
ConfReadErr ==
    /\ conf.pc = "wait"
    /\ \E e \in RxReadErrors : conf' = ConfDone(conf, e)
    /\ UNCHANGED <<main, rx, fw, fwd, scan, rt, prof, sq, dec, hdr, seen, role>>

\* The loop's timeout has passed: a setting command counts as accepted by an
\* older firmware, a mode command as failed.
ConfTimeout ==
    /\ conf.pc = "wait"
    /\ conf' = Resolve(conf, IF conf.pending # <<>> THEN "silence" ELSE "timeout")
    /\ UNCHANGED <<main, rx, fw, fwd, scan, rt, prof, sq, dec, hdr, seen, role>>

\* After the acknowledgement: wait_for_application_flexible.
ConfReboot ==
    /\ conf.pc = "reboot"
    /\ \E r \in {"Ok", "BootloaderTimeout"} : conf' = ConfDone(conf, r)
    /\ UNCHANGED <<main, rx, fw, fwd, scan, rt, prof, sq, dec, hdr, seen, role>>

InitConfigure ==
    /\ Quiet
    /\ rx = Off
    /\ fw = Off
    /\ fwd = Off
    /\ scan = Off
    /\ rt = Off
    /\ prof = Off
    /\ conf = InitConf
    /\ sq = Off
    /\ dec = Off
    /\ hdr = Off
    /\ seen = Off
    /\ role = Off

NextConfigure ==
    \/ Configure
    \/ ConfWrite
    \/ ConfRead
    \/ ConfReadErr
    \/ ConfTimeout
    \/ ConfReboot

SpecConfigure == InitConfigure /\ [][NextConfigure]_vars

\* ------------------------------------------------- the sequence counter
\* The calls of next_sequence_number since the last reset_sequence_number,
\* and what the last call returned.
InitSq == [pc |-> "counting", calls |-> 0, returned |-> -1, resets |-> 0]

\* reset_sequence_number()
ResetSequenceNumber ==
    /\ sq.pc = "counting"
    /\ sq.resets < MaxResets
    /\ SEQUENCE_NUMBER' = reset_sequence_number
    /\ sq' = [sq EXCEPT !.calls = 0, !.returned = -1, !.resets = @ + 1]
    /\ UNCHANGED <<DFU_IN_PROGRESS, DFU_CANCELLED, call, wire, acks, devAcked, obs>>
    /\ UNCHANGED <<rx, fw, fwd, scan, rt, prof, conf, dec, hdr, seen, role>>

\* next_sequence_number()
NextSequenceNumber ==
    /\ sq.pc = "counting"
    /\ sq.calls < MaxCalls
    /\ SEQUENCE_NUMBER' = fetch_add(SEQUENCE_NUMBER)
    /\ sq' = [sq EXCEPT !.calls = @ + 1, !.returned = next_sequence_number(SEQUENCE_NUMBER)]
    /\ UNCHANGED <<DFU_IN_PROGRESS, DFU_CANCELLED, call, wire, acks, devAcked, obs>>
    /\ UNCHANGED <<rx, fw, fwd, scan, rt, prof, conf, dec, hdr, seen, role>>

InitSequence ==
    /\ Quiet
    /\ rx = Off
    /\ fw = Off
    /\ fwd = Off
    /\ scan = Off
    /\ rt = Off
    /\ prof = Off
    /\ conf = Off
    /\ sq = InitSq
    /\ dec = Off
    /\ hdr = Off
    /\ seen = Off
    /\ role = Off

NextSequence ==
    \/ ResetSequenceNumber
    \/ NextSequenceNumber

SpecSequence == InitSequence /\ [][NextSequence]_vars

\* --------------------------------------- one HciSlipDecoder, fed for long
\* The bytes fed: the SLIP bytes and two ordinary ones.
DecBytes == {SLIP_END, SLIP_ESC, SLIP_ESC_END, 1, 2}

\* A decoder whose frames are compared with what was fed; the bytes fed since
\* the last error are remembered as long as they can be a frame of at most
\* MaxKept bytes between two END.
InitDec ==
    [pc |-> "feeding",
     d |-> [NewDecoder EXCEPT !.buffer.keep = MaxKept],
     out |-> [kind |-> "None"], err |-> "none", since |-> <<>>, fed_next |-> FALSE]

\* decoder.feed(byte)
DecFeed ==
    /\ dec.pc = "feeding"
    /\ \E byte \in DecBytes :
        LET r == feed(dec.d, byte) IN
        dec' = IF r.out.kind = "Err"
               THEN [dec EXCEPT !.d = r.dec, !.out = r.out, !.err = r.out.err,
                                !.since = <<>>, !.fed_next = TRUE]
               ELSE [dec EXCEPT !.d = r.dec, !.out = r.out,
                                !.since = IF dec.fed_next /\ Len(@) < MaxKept + 2
                                          THEN Append(@, byte) ELSE <<>>,
                                !.fed_next = dec.fed_next /\ Len(dec.since) < MaxKept + 2]
    /\ UNCHANGED <<main, rx, fw, fwd, scan, rt, prof, conf, sq, hdr, seen, role>>

InitDecoder ==
    /\ Quiet
    /\ rx = Off
    /\ fw = Off
    /\ fwd = Off
    /\ scan = Off
    /\ rt = Off
    /\ prof = Off
    /\ conf = Off
    /\ sq = Off
    /\ dec = InitDec
    /\ hdr = Off
    /\ seen = Off
    /\ role = Off

NextDecoder == DecFeed

SpecDecoder == InitDecoder /\ [][NextDecoder]_vars

\* ------------------------------------------------------- build_hci_header
\* Bitwise operations on unsigned integers, as Rust computes them.
RECURSIVE bitand(_, _)
\* `a & b`
bitand(a, b) ==
    IF a = 0 \/ b = 0 THEN 0
    ELSE (IF a % 2 = 1 /\ b % 2 = 1 THEN 1 ELSE 0) + 2 * bitand(a \div 2, b \div 2)

\* `a | b`
bitor(a, b) == a + b - bitand(a, b)

\* `a << n` in a type of `width` bits: the bits shifted out are lost.
shl(a, n, width) == (a * 2^n) % 2^width

\* `a >> n`
shr(a, n) == a \div 2^n

\* `x as u8`, `x as u16`
as_u8(x) == x % 256
as_u16(x) == x % 65536

HCI_PACKET_TYPE == 14
DATA_INTEGRITY_CHECK_PRESENT == 1
RELIABLE_PACKET == 1

\* A checksum that complements the sum and adds nothing.
header_checksum_ones_complement(sum) == as_u8(bitand(65535 - sum, 255))

\* `((!sum).wrapping_add(1) & 0xFF) as u8` on the u16 `sum`.
header_checksum(sum) == as_u8(bitand(as_u16((65535 - sum) + 1), 255))

\* build_hci_header
build_hci_header(seq, payload_len) ==
    LET next_seq == bitand(seq + 1, 7)
        len == as_u16(payload_len)
        byte0 == bitor(bitor(bitor(seq, shl(next_seq, 3, 8)),
                             shl(DATA_INTEGRITY_CHECK_PRESENT, 6, 8)),
                       shl(RELIABLE_PACKET, 7, 8))
        byte1 == bitor(HCI_PACKET_TYPE, shl(as_u8(bitand(len, 15)), 4, 8))
        byte2 == as_u8(shr(bitand(len, 4080), 4))
        sum == bitand(byte0 + byte1 + byte2, 255)
        byte3 == header_checksum(sum)
    IN <<byte0, byte1, byte2, byte3>>

\* The sequence numbers next_sequence_number returns.
HeaderSeqs == 0..7

\* The payload lengths: every one up to MaxPayload.
PayloadLens == 0..MaxPayload

\* A header is built.
BuildHciHeader ==
    /\ hdr.pc = "input"
    /\ hdr' = [hdr EXCEPT !.pc = "built", !.header = build_hci_header(hdr.seq, hdr.payload_len)]
    /\ UNCHANGED <<main, rx, fw, fwd, scan, rt, prof, conf, sq, dec, seen, role>>

InitHeader ==
    /\ Quiet
    /\ rx = Off
    /\ fw = Off
    /\ fwd = Off
    /\ scan = Off
    /\ rt = Off
    /\ prof = Off
    /\ conf = Off
    /\ sq = Off
    /\ dec = Off
    /\ seen = Off
    /\ role = Off
    /\ \E seq \in HeaderSeqs, payload_len \in PayloadLens :
        hdr = [pc |-> "input", seq |-> seq, payload_len |-> payload_len, header |-> <<>>]

NextHeader == BuildHciHeader

SpecHeader == InitHeader /\ [][NextHeader]_vars

\* ------------------------------------ the waits for the device to come back
\* The engine on its own, or a configurator on its own: every wait for the
\* device to re-enumerate the program makes is in one of the two.
InitReenumerate ==
    \/ Init
    \/ InitConfigure

NextReenumerate ==
    \/ conf = Off /\ NextOne
    \/ conf # Off /\ NextConfigure

SpecReenumerate == InitReenumerate /\ [][NextReenumerate]_vars

\* --------------------------------------- one call, watched across attempts
\* An observer of the call `first` that remembers, from attempt to attempt,
\* whether the bootloader has acknowledged StopData and in which attempt it
\* first did: it takes note as soon as the engine has dropped the session
\* after the ACK of StopData, and forgets when flash_dfu_firmware has returned.
InitSeen == [pc |-> "watching", finalized |-> FALSE, at |-> 0]

\* The engine has had StopData acknowledged: it is about to wait for the reboot.
StopDataAcked(c) == call[c].pc = "reboot_wait"

\* What the observer has yet to write down.
Unnoted(c) ==
    \/ StopDataAcked(c) /\ ~seen.finalized
    \/ call[c].pc \in {"idle", "done"} /\ seen.finalized

Note ==
    /\ Unnoted("first")
    /\ seen' = [seen EXCEPT !.finalized = StopDataAcked("first"),
                             !.at = IF StopDataAcked("first") THEN call["first"].attempt ELSE 0]
    /\ UNCHANGED <<main, rx, fw, fwd, scan, rt, prof, conf, sq, dec, hdr, role>>

\* The call takes a step once the observer is up to date.
WatchedStep(c) == ~Unnoted(c) /\ CallStep(c)

InitWatched ==
    /\ Quiet
    /\ rx = Off
    /\ fw = Off
    /\ fwd = Off
    /\ scan = Off
    /\ rt = Off
    /\ prof = Off
    /\ conf = Off
    /\ sq = Off
    /\ dec = Off
    /\ hdr = Off
    /\ seen = InitSeen
    /\ role = Off

NextWatched ==
    \/ WatchedStep("first")
    \/ Note
    \/ CancelDfuFlash
    \/ DeviceAck
    \/ DeviceDrop

SpecWatched ==
    /\ InitWatched
    /\ [][NextWatched]_vars
    /\ WF_vars(WatchedStep("first"))
    /\ WF_vars(Note)

\* ------------------------------------------ one call, with its device_role
\* flash_dfu_firmware hands `device_role` through flash_dfu_firmware_inner to
\* upload_firmware unexamined; the first code to look at it is
\* configure_device_role_flexible, the last step of the pipeline.
DeviceRoles == {"PRIMARY", "primary", "SECONDARY", "Secondary", "BOGUS", ""}

\* str::to_uppercase.
to_uppercase(s) ==
    CASE s = "primary" -> "PRIMARY"
      [] s = "Secondary" -> "SECONDARY"
      [] OTHER -> s

ROLE_PRIMARY_COMMAND == "SET_ROLE:PRIMARY\n"
ROLE_SECONDARY_COMMAND == "SET_ROLE:SECONDARY\n"
NoCommand == "none"

\* `match role.to_uppercase().as_str()`: the command for the role, or none.
role_command(device_role) ==
    CASE to_uppercase(device_role) = "PRIMARY" -> ROLE_PRIMARY_COMMAND
      [] to_uppercase(device_role) = "SECONDARY" -> ROLE_SECONDARY_COMMAND
      [] OTHER -> NoCommand

\* Step 10 of upload_firmware with the role in hand: a name that matches no
\* command is refused before the port is opened; otherwise the step ends as
\* ConfigureRole does.
ConfigureRoleFlexible(c) ==
    /\ call[c].pc = "configure_role"
    /\ LET cc == Emit(call[c], Stage(StageOf("configure_role"))) IN
       IF role_command(role.device_role) = NoCommand
       THEN Return(c, cc, "RoleConfigInvalid")
       ELSE \/ \E e \in RoleErrors : Return(c, cc, e)
            \/ Return(c, Emit(cc, Stage(StageOf("complete"))), "Ok")
    /\ UNCHANGED <<DFU_IN_PROGRESS, DFU_CANCELLED, SEQUENCE_NUMBER, obs>>
    /\ UNCHANGED parts

RoleStep(c) ==
    \/ call[c].pc # "configure_role" /\ CallStep(c)
    \/ ConfigureRoleFlexible(c)
    \/ call[c].pc = "configure_role" /\ Panic(c)

InitRole ==
    /\ Quiet
    /\ rx = Off /\ fw = Off /\ fwd = Off /\ scan = Off /\ rt = Off /\ prof = Off
    /\ conf = Off /\ sq = Off /\ dec = Off /\ hdr = Off /\ seen = Off
    /\ \E r \in DeviceRoles : role = [device_role |-> r]

NextRole ==
    \/ RoleStep("first")
    \/ CancelDfuFlash
    \/ DeviceAck
    \/ DeviceDrop

SpecRole == InitRole /\ [][NextRole]_vars

\* ----------------------------------------------------------------- claims
\* C1: single-flight. At most one call is past admission at any time, and a
\* call that got the 'already in progress' error never started the engine.
SingleFlight ==
    /\ Cardinality({c \in Calls : Active(c)}) <= 1
    /\ \A c \in Calls : call[c].result = "AlreadyInProgress" => ~obs[c].ran

\* A call was turned away while another one is running the engine.
SingleFlightWitness ==
    \E c, d \in Calls :
        /\ InEngine(c)
        /\ call[d].pc = "done"
        /\ call[d].result = "AlreadyInProgress"

\* C2: whenever no admitted call is left, on whatever path the last one
\* ended, DFU_IN_PROGRESS is false (so the next call is admitted).
GuardReleased == (\A c \in Calls : ~Active(c)) => ~DFU_IN_PROGRESS

\* A call ended in a worker panic and a later call has been admitted.
GuardReleasedWitness ==
    \E c, d \in Calls :
        /\ call[c].pc = "done"
        /\ call[c].result = "Panicked"
        /\ InEngine(d)

\* C3: while the cancellation flag is set during a running flash the engine
\* starts no further packet and does not complete the update.
CancelStopsWrites ==
    [][\A c \in Calls :
          (DFU_CANCELLED /\ InEngine(c)) =>
              /\ call'[c].pktNo <= call[c].pktNo
              /\ call'[c].engErr # "Ok"]_vars

\* C4: a run cancelled in the data transfer has sent no StopData and has
\* closed the serial transport when upload_firmware returns.
CancelledTransferClosesPort ==
    \A c \in Calls :
        (/\ call[c].pc = "inner_ret"
         /\ call[c].engErr = "Cancelled"
         /\ call[c].cur \in {"init_packet", "data"})
        => (~call[c].stopSent /\ call[c].transport = "closed")

\* A run was cancelled between two data chunks.
CancelledTransferWitness ==
    \E c \in Calls :
        /\ call[c].pc = "inner_ret"
        /\ call[c].engErr = "Cancelled"
        /\ call[c].cur = "data"
        /\ call[c].sent > 0

\* C5: with the flag set when one of the listed pipeline steps is about to
\* start, the step is not performed and upload_firmware returns Cancelled
\* (a worker that panics there performs nothing either).
PollsBeforeEveryStep ==
    [][\A c \in Calls :
          (/\ DFU_CANCELLED
           /\ call[c].pc \in {"enter_bootloader", "connect", "start_dfu", "init_packet",
                              "data", "stop_data", "reboot_wait", "configure_role"}
           /\ call'[c] # call[c])
          => call'[c].engErr \in {"Cancelled", "Panicked"}]_vars

\* C6: the flag an admitted call sees set was set after its admission, and a
\* run ends Cancelled only then: a cancel from before admission has no effect.
StaleCancelIgnored ==
    \A c \in Calls :
        /\ (Active(c) /\ DFU_CANCELLED) => obs[c].cancelSeen
        /\ call[c].engErr = "Cancelled" => obs[c].cancelSeen

\* After a flash that ended Cancelled, the next flash ran to completion with
\* no cancel issued since its admission.
StaleCancelIgnoredWitness ==
    \E c, d \in Calls :
        /\ call[d].pc = "done"
        /\ call[d].result = "Cancelled"
        /\ ~obs[c].cancelSeen
        /\ call[c].pc = "inner_ret"
        /\ call[c].engErr = "Ok"

\* C7: the stages emitted so far are a prefix of the full sequence (with one
\* Uploading per chunk), optionally followed by Cancelled; a successful run
\* has emitted exactly the full sequence.
StageOrder ==
    \A c \in Calls :
        LET len == call[c].fwLen
            n == (len + FIRMWARE_CHUNK_SIZE - 1) \div FIRMWARE_CHUNK_SIZE
            full == << Stage("ReadingPackage"), Stage("DetectedDevice"),
                       Stage("EnteringBootloader"), Stage("WaitingForBootloader"),
                       Stage("Connecting"), Stage("Starting"), Stage("SendingInit") >>
                    \o [i \in 1..n |-> Uploading(Min(i * FIRMWARE_CHUNK_SIZE, len))]
                    \o << Stage("Finalizing"), Stage("WaitingForReboot"),
                          Stage("ConfiguringRole"), Stage("Complete") >>
            st == call[c].stages
            cut == IF st # <<>> /\ st[Len(st)] = Stage("Cancelled")
                   THEN SubSeq(st, 1, Len(st) - 1) ELSE st
        IN  /\ Len(cut) <= Len(full)
            /\ cut = SubSeq(full, 1, Len(cut))
            /\ call[c].engErr = "Ok" => st = full
            /\ (call[c].pc = "inner_ret" /\ st = full) => call[c].engErr = "Ok"

\* A run completed after uploading more than one chunk.
StageOrderWitness ==
    \E c \in Calls :
        /\ call[c].engErr = "Ok"
        /\ call[c].fwLen > FIRMWARE_CHUNK_SIZE
        /\ Len(call[c].stages) > 12

\* C8: of the packets the host has written in the session, at most one has
\* not been acknowledged by the bootloader.
OneOutstandingFrame ==
    \A c \in Calls :
        call[c].transport = "open" =>
            Cardinality({p \in 1..call[c].sentMax : p \notin devAcked}) <= 1

LocalRetryKinds ==
    \A c \in Calls :
        LET kinds == {"Timeout", "CrcMismatch", "SequenceMismatch"} IN
        /\ call[c].txPrevErr # "none" => call[c].txPrevErr \in kinds
        /\ call[c].txErr \in kinds => call[c].txAttempt = MAX_PACKET_RETRIES
        /\ (call[c].txErr # "none" /\ call[c].txErr \notin kinds)
           => call[c].engErr = call[c].txErr

\* After a retransmission, an attempt failed with an error of another kind.
LocalRetryKindsWitness ==
    \E c \in Calls :
        /\ call[c].pc = "inner_ret"
        /\ call[c].txErr \in {"Io", "InvalidSlipEscape"}
        /\ call[c].txAttempt > 0

\* C11: the first complete SLIP frame wait_for_ack receives is the
\* acknowledgement whatever its bits 3-5 are: the wait returns Ok with those
\* bits as ack_number, and no wait ends in SequenceMismatch or in the
\* IncompleteSlipFrame of an empty ACK.
AckByPresence ==
    /\ (rx.pc = "done" /\ rx.frame.len > 0)
       => rx.result = [kind |-> "Ok", ack_number |-> (rx.frame.first \div 8) % 8]
    /\ (rx.pc = "done" /\ rx.result.kind = "Err")
       => rx.result.err \notin {"SequenceMismatch", "IncompleteSlipFrame"}

\* A frame whose ack_number (7) is not the number of the packet the host sent
\* was accepted.
AckByPresenceWitness ==
    /\ rx.pc = "done"
    /\ rx.frame.len > 0
    /\ rx.result.kind = "Ok"
    /\ rx.result.ack_number = 7
    /\ rx.result.ack_number # next_sequence_number(SEQUENCE_NUMBER)

\* C19: the buffer of the HciSlipDecoder never holds more than
\* MAX_SLIP_FRAME_SIZE = 1536 bytes; a frame it returns has between 1 and 1536
\* bytes; with 1536 bytes buffered, feeding any byte other than END returns
\* SlipBufferOverflow and leaves the buffer empty instead of growing it.
DecoderBounded ==
    /\ rx.dec.buffer.len <= MAX_SLIP_FRAME_SIZE
    /\ (rx.pc = "done" /\ rx.result.kind = "Ok")
       => (rx.frame.len >= 1 /\ rx.frame.len <= MAX_SLIP_FRAME_SIZE)
    /\ rx.dec.buffer.len = MAX_SLIP_FRAME_SIZE
       => \A byte \in RxBytes \ {SLIP_END} :
             /\ feed(rx.dec, byte).out.kind = "Err"
             /\ feed(rx.dec, byte).out.err = "SlipBufferOverflow"
             /\ feed(rx.dec, byte).out.size = MAX_SLIP_FRAME_SIZE
             /\ feed(rx.dec, byte).dec.buffer.len = 0
    /\ (rx.pc = "done" /\ rx.result.kind = "Err" /\ rx.result.err = "SlipBufferOverflow")
       => rx.dec.buffer.len = 0

\* A byte arrived with 1536 bytes buffered and the wait ended in
\* SlipBufferOverflow.
DecoderBoundedWitness ==
    /\ rx.pc = "done"
    /\ rx.result.kind = "Err"
    /\ rx.result.err = "SlipBufferOverflow"
    /\ rx.dec = NewDecoder

\* C12: a send_firmware that returned Ok has handed ceil(S/512) DATA packets
\* to send_and_wait_ack, consecutive from offset 0, each of 1..512 firmware
\* bytes, ending at S; it wrote one frame for each of them and one more for
\* each retransmission, so without a failed attempt exactly these; it slept once after every 8th packet and at no other time, which is
\* floor(packets/8) times.
Chunking ==
    (fw.pc = "done" /\ fw.result = "Ok") =>
        LET n == Len(fw.packets)
            off(i) == fw.packets[i][1]
            len(i) == fw.packets[i][2]
        IN /\ n = (fw.total + FIRMWARE_CHUNK_SIZE - 1) \div FIRMWARE_CHUNK_SIZE
           /\ \A i \in 1..n :
                /\ len(i) >= 1 /\ len(i) <= FIRMWARE_CHUNK_SIZE
                /\ off(i) = IF i = 1 THEN 0 ELSE off(i - 1) + len(i - 1)
           /\ (n > 0 => off(n) + len(n) = fw.total)
           /\ fw.writes = n + fw.retries
           /\ fw.sleeps = {i \in 1..n : i % FRAMES_PER_FLASH_PAGE = 0}
           /\ Cardinality(fw.sleeps) = n \div FRAMES_PER_FLASH_PAGE

\* A firmware that is not a multiple of the chunk size and spans more than two
\* flash pages was sent without a failed attempt.
ChunkingWitness ==
    /\ fw.pc = "done"
    /\ fw.result = "Ok"
    /\ fw.total % FIRMWARE_CHUNK_SIZE # 0
    /\ Len(fw.packets) > 2 * FRAMES_PER_FLASH_PAGE
    /\ fw.retries = 0
    /\ fw.writes = Len(fw.packets)
    /\ Cardinality(fw.sleeps) = 2

\* C13: in the Uploading events of one send_firmware, total is always the
\* firmware length, sent is strictly increasing from one event to the next and
\* never above total, and when the transfer has returned Ok the last event has
\* sent = total; retransmissions add no event.
UploadingMonotone ==
    LET p == fw.progress IN
    /\ \A i \in 1..Len(p) : p[i].total = fw.total /\ p[i].sent <= fw.total /\ p[i].sent > 0
    /\ \A i \in 1..(Len(p) - 1) : p[i].sent < p[i + 1].sent
    /\ (fw.pc = "done" /\ fw.result = "Ok" /\ Len(p) > 0) => p[Len(p)].sent = fw.total
    /\ (fw.pc = "done" /\ fw.result = "Ok" /\ fw.total > 0) => Len(p) > 0
    /\ Len(p) <= Len(fw.packets)

\* A transfer of several chunks completed after packets were retransmitted.
UploadingMonotoneWitness ==
    /\ fw.pc = "done"
    /\ fw.result = "Ok"
    /\ fw.retries > 1
    /\ Len(fw.progress) > 2
    /\ fw.progress[Len(fw.progress)].sent = fw.total

\* C14: a call invokes the engine at most MAX_OPERATION_RETRIES + 1 = 3 times:
\* the attempt number never exceeds 2, it grows only by the retry that follows
\* an attempt failed with an error whose text contains a retriable phrase (the
\* I/O error, the ACK and bootloader timeouts, no device found, a disconnect,
\* the role-configuration timeout, a missing member named bootloader.dat);
\* success, any other error and the failure
\* of the third attempt are returned by the step that follows the attempt; and
\* every admitted call returns.
RetryBudget ==
    /\ [](call["first"].attempt <= MAX_OPERATION_RETRIES)
    /\ [][LET c == "first"
              old == call[c]
              new == call'[c]
              RetriableKinds == {"Io", "Timeout", "BootloaderTimeout", "NoDeviceFound",
                                 "DeviceDisconnected", "RoleConfigTimeout",
                                 "MissingDatFile"}
          IN /\ (new.pc = "retry_sleep" /\ old.pc # "retry_sleep")
                => /\ old.pc = "inner_ret"
                   /\ old.engErr \in RetriableKinds
                   /\ old.attempt < MAX_OPERATION_RETRIES
             /\ (new.attempt > old.attempt)
                => (old.pc = "retry_sleep" /\ new.attempt = old.attempt + 1)
             /\ (old.pc = "inner_ret" /\ new # old
                   /\ (old.engErr \notin RetriableKinds
                         \/ old.attempt = MAX_OPERATION_RETRIES))
                => (new.pc = "done" /\ new.result = old.engErr)
         ]_vars
    /\ (call["first"].pc \notin {"idle", "done"}) ~> (call["first"].pc = "done")

\* The third attempt of a call has failed with a retriable error.
RetryBudgetWitness ==
    /\ call["first"].pc = "inner_ret"
    /\ call["first"].attempt = MAX_OPERATION_RETRIES
    /\ call["first"].engErr = "BootloaderTimeout"

\* C15: an attempt that failed with MissingFile (whatever member is missing)
\* or PortPermissionDenied is followed by the return of that error from
\* flash_dfu_firmware, with DFU_IN_PROGRESS cleared, and by no retry.
\* (InvalidManifest and PacketTooLarge are constructed nowhere in the program.)
FatalSurfacedDirectly ==
    [][LET old == call["first"]
           new == call'["first"]
       IN (/\ old.pc = "inner_ret"
           /\ old.engErr \in {"MissingFile", "MissingDatFile", "PortPermissionDenied"}
           /\ new # old)
          => /\ new.pc = "done"
             /\ new.result = old.engErr
             /\ DFU_IN_PROGRESS' = FALSE
      ]_vars

\* C16: when the forwarder has failed to deliver a stage event and has set
\* the cancellation flag while the engine was running, the engine does not
\* complete the update: the attempt does not return Ok.
DisconnectCancels ==
    (fwd.detected = "running" /\ fwd.inner = "returned") => fwd.result # "Ok"

\* C17: the frontend receives the stage events in the order of emission, none
\* twice and none skipped, and when flash_dfu_firmware_inner has returned
\* every event the worker emitted has been delivered, unless the forwarder
\* found the channel disconnected.
ForwardedInOrderBeforeReturn ==
    /\ \A i \in 1..Len(fwd.delivered) : fwd.delivered[i].id = i
    /\ fwd.inner = "returned"
       => (fwd.detected # "no" \/ Len(fwd.delivered) = fwd.emitted)

\* C18: the wait returns a device only when the last two scans both found a
\* device in the required mode, and returns that device; the count is the
\* length of the run of matching scans that ends with the last scan, so a scan
\* without a match brings it to zero and a single sighting between misses
\* never causes a return; a wait that ends otherwise ends in BootloaderTimeout
\* and has seen no two matches in a row.
TwoConsecutiveSightings ==
    LET n == Len(scan.seen)
        hit(i) == scan.seen[i] = scan.required
        run == IF n = 0 \/ ~hit(n) THEN 0
               ELSE IF n = 1 \/ ~hit(n - 1) THEN 1 ELSE 2
    IN /\ (scan.pc = "done" /\ scan.result = "Ok")
          => (n >= 2 /\ hit(n) /\ hit(n - 1) /\ scan.device = scan.required)
       /\ scan.pc \in {"loop", "done"} => scan.consecutive_detections = run
       /\ (scan.pc = "done" /\ scan.result # "Ok")
          => /\ scan.result = "BootloaderTimeout"
             /\ \A i \in 1..(n - 1) : ~(hit(i) /\ hit(i + 1))

\* The device was sighted once, then missed, then sighted twice in a row.
TwoConsecutiveSightingsWitness ==
    /\ scan.pc = "done"
    /\ scan.result = "Ok"
    /\ Len(scan.seen) = 4
    /\ scan.seen[1] = scan.required
    /\ scan.seen[2] # scan.required

\* C20: decoding the encoding of a byte string gives the byte string back,
\* for every string, with END and ESC bytes in it or empty; the encoding
\* starts and ends with END and has no END in between.
SlipRoundTrip ==
    /\ rt.pc = "decoded" => rt.decoded = [kind |-> "Ok", data |-> rt.b]
    /\ rt.pc \in {"encoded", "decoded"}
       => /\ Len(rt.encoded) >= Len(rt.b) + 2
          /\ \A i \in 1..Len(rt.encoded) :
                (rt.encoded[i] = SLIP_END) <=> (i = 1 \/ i = Len(rt.encoded))

\* A string with an END, an ESC and the two escape codes was encoded and
\* decoded.
SlipRoundTripWitness ==
    /\ rt.pc = "decoded"
    /\ rt.decoded.kind = "Ok"
    /\ rt.b = <<SLIP_END, SLIP_ESC, SLIP_ESC_END, SLIP_ESC_ESC>>
    /\ Len(rt.encoded) = 8


\* C21: the serial port of a device is owned by one operation at a time; in
\* particular set_device_profile does not run its serial dialog while a
\* flash_dfu_firmware session is in progress.
ProfileDialogOutsideFlash == prof.pc = "dialog" => ~DFU_IN_PROGRESS


\* The dialog has just resolved a command: the last entry of the log is the
\* reply, the entry before it the command, and conf.response what was read.
ConfResolved == conf.log # <<>> /\ conf.log[Len(conf.log)].ev = "reply"

ConfLastVerdict == conf.log[Len(conf.log)].verdict

ConfLastCommand == conf.log[Len(conf.log) - 1].cmd

ConfModeResolved == ConfResolved /\ ConfLastCommand = ModeCommand(conf.mode)

ConfSettingResolved == ConfResolved /\ ConfLastCommand # ModeCommand(conf.mode)

\* C22: after a mode command (SET_ROLE / SET_PROFILE) the configurator returns
\* success only if a response with "[CONFIG]" and "Role set to" / "Profile set
\* to" arrived in time; every response containing "[ERROR]" yields
\* RoleConfigFailed / ProfileConfigFailed, and so does a timeout.
ModeReplyByMarkers ==
    ConfModeResolved =>
        /\ conf.result = "Ok" =>
              /\ contains(conf.response, <<"[CONFIG]">>)
              /\ contains(conf.response, <<SetTo(conf.mode)>>)
        /\ contains(conf.response, <<"[ERROR]">>) =>
              /\ conf.pc = "done"
              /\ conf.result = ConfigFailed(conf.mode)
        /\ ConfLastVerdict = "timeout" =>
              /\ conf.pc = "done"
              /\ conf.result = ConfigFailed(conf.mode)

\* "[ERROR]" is in the response before any "[SETTING]".
ErrorFirst(response) ==
    \E i \in 1..Len(response) :
        /\ response[i] = "[ERROR]"
        /\ \A j \in 1..(i - 1) : response[j] # "[SETTING]"

\* C23: a settings command succeeds when a "[SETTING]" reply arrives in time
\* or the device stays silent until the timeout; it fails with
\* SettingConfigFailed exactly when an "[ERROR]" response is received first.
SettingReplyByFirstMarker ==
    ConfSettingResolved =>
        /\ (conf.response = <<>> \/ (~ErrorFirst(conf.response)
                                      /\ contains(conf.response, <<"[SETTING]">>)))
              => ConfLastVerdict \in {"ack", "silence"}
        /\ (conf.pc = "done" /\ conf.result = "SettingConfigFailed")
              <=> ErrorFirst(conf.response)

\* C24: the setting commands are written in list order, each after the one
\* before it was resolved, and the profile command after all of them
\* succeeded; after a failed setting command nothing is written, and the
\* dialog ends at the first success reply to the profile command.
DialogInOrder ==
    conf.pc # "off" =>
    LET plan == conf.cmds \o <<ModeCommand(conf.mode)>> IN
    /\ Len(conf.log) <= 2 * Len(plan)
    /\ \A i \in 1..Len(conf.log) :
          IF i % 2 = 1
          THEN /\ conf.log[i].ev = "write"
               /\ conf.log[i].cmd = plan[(i + 1) \div 2]
          ELSE /\ conf.log[i].ev = "reply"
               /\ i < Len(conf.log) => conf.log[i].verdict \in {"ack", "silence"}
    /\ conf.pc \in {"send", "wait"} =>
          \A i \in 1..Len(conf.log) :
              conf.log[i].ev = "reply" => conf.log[i].verdict \in {"ack", "silence"}
    /\ (ConfModeResolved /\ ConfLastVerdict = "ack") =>
          /\ conf.pc \in {"reboot", "done"}
          /\ conf.port = "closed"
          /\ conf.result \in {"none", "Ok", "BootloaderTimeout"}
    /\ conf.pc = "done" /\ conf.result = "SettingConfigFailed" =>
          \A i \in 1..Len(conf.log) :
              conf.log[i].ev = "write" => conf.log[i].cmd # ModeCommand(conf.mode)

DialogInOrderWitness ==
    /\ conf.pc = "done"
    /\ conf.result = "Ok"
    /\ Len(conf.cmds) = 2
    /\ Len(conf.log) = 6
    /\ conf.log[2].verdict = "silence"
    /\ conf.log[4].verdict = "ack"


\* C25 as stated: a transport I/O error while a packet is sent is reported
\* to the caller as DeviceDisconnected.
IoReportedAsDisconnected ==
    (call["first"].pc = "inner_ret" /\ call["first"].txErr = "Io")
        => call["first"].engErr = "DeviceDisconnected"

\* C25 as amended: a transport I/O error while a packet is sent ends
\* send_and_wait_ack without a retransmission and is returned by
\* upload_firmware as that Io error; DeviceDisconnected is returned only by
\* the health check before StartDfu, when no packet has been built.
IoReturnedAsIo ==
    /\ call["first"].txPrevErr # "Io"
    /\ call["first"].txErr = "Io"
          => (call["first"].pc = "inner_ret" => call["first"].engErr = "Io")
    /\ (call["first"].pc = "inner_ret" /\ call["first"].engErr = "DeviceDisconnected")
          => /\ call["first"].pktNo = 0
             /\ call["first"].txErr = "none"
             /\ call["first"].transport = "closed"

\* A write or read of a DATA frame failed after the packet had been retried.
IoReturnedAsIoWitness ==
    /\ call["first"].pc = "inner_ret"
    /\ call["first"].cur = "data"
    /\ call["first"].txErr = "Io"
    /\ call["first"].txAttempt > 0
    /\ call["first"].engErr = "Io"


\* C26: when upload_firmware ends because of a cancellation, Cancelled is the
\* last stage it emits and the error it returns; no run emits both Complete
\* and Cancelled, and no stage is emitted after either of them.
CancelledIsLastStage ==
    LET cc == call["first"]
        final == {Stage("Cancelled"), Stage("Complete")}
        n == Len(cc.stages)
    IN
    /\ \A i \in 1..(n - 1) : cc.stages[i] \notin final
    /\ (n > 0 /\ cc.stages[n] \in final) => cc.pc \in {"inner_ret", "retry_sleep", "done"}
    /\ (cc.pc = "inner_ret" /\ cc.engErr = "Cancelled")
          => (n > 0 /\ cc.stages[n] = Stage("Cancelled"))
    /\ (n > 0 /\ cc.stages[n] = Stage("Cancelled") /\ cc.pc = "inner_ret")
          => cc.engErr = "Cancelled"
    /\ (n > 0 /\ cc.stages[n] = Stage("Complete") /\ cc.pc = "inner_ret")
          => cc.engErr = "Ok"

\* The transfer was cancelled between two chunks.
CancelledIsLastStageWitness ==
    LET cc == call["first"] IN
    /\ cc.pc = "inner_ret"
    /\ cc.engErr = "Cancelled"
    /\ Len(cc.stages) > 2
    /\ cc.stages[Len(cc.stages)] = Stage("Cancelled")
    /\ cc.stages[Len(cc.stages) - 1].stage = "Uploading"


\* C27: send_and_wait_ack transmits a packet at most 1 + MAX_PACKET_RETRIES
\* times; every retransmission follows a retriable error, sends the packet
\* of the first transmission again and finds the SLIP decoder reset.
RetransmissionsAlike ==
    LET cc == call["first"]
        n == Len(cc.txLog)
    IN
    /\ n <= 1 + MAX_PACKET_RETRIES
    /\ n <= 1 + cc.txAttempt
    /\ (cc.pc = "tx_send" /\ n > 0)
          => cc.txPrevErr \in {"Timeout", "CrcMismatch", "SequenceMismatch"}
    /\ \A i \in 2..n :
          /\ cc.txLog[i].pkt = cc.txLog[1].pkt
          /\ cc.txLog[i].seq = cc.txLog[1].seq
          /\ cc.txLog[i].slip = "reset"

\* A DATA frame is on the wire for the fourth time.
RetransmissionsAlikeWitness ==
    /\ call["first"].pc = "tx_wait"
    /\ call["first"].cur = "data"
    /\ Len(call["first"].txLog) = 1 + MAX_PACKET_RETRIES
    /\ call["first"].txLog[1].slip = "used"


PlainData == UNION { [1..n -> DecBytes \ {SLIP_END, SLIP_ESC}] : n \in 1..MaxKept }

\* C30: whenever feed returns an error (invalid escape or overflow) the
\* decoder is back in its initial state (empty buffer, no pending escape, not
\* in a frame), and a frame END, data, END fed next is decoded to data.
DecoderRecovers ==
    /\ (dec.pc = "feeding" /\ dec.out.kind = "Err")
          => /\ dec.out.err \in {"InvalidSlipEscape", "SlipBufferOverflow"}
             /\ dec.d = InitDec.d
    /\ (dec.pc = "feeding" /\ dec.fed_next)
          => \A data \in PlainData :
                dec.since = <<SLIP_END>> \o data \o <<SLIP_END>>
                   => /\ dec.out.kind = "Frame"
                      /\ dec.out.frame.len = Len(data)
                      /\ dec.out.frame.head = data

\* The buffer overflowed, and the frame END, 1, 2, END was fed after it.
DecoderRecoversWitness ==
    /\ dec.pc = "feeding"
    /\ dec.fed_next
    /\ dec.err = "SlipBufferOverflow"
    /\ dec.since = <<SLIP_END, 1, 2, SLIP_END>>
    /\ dec.out.kind = "Frame"
    /\ dec.out.frame.head = <<1, 2>>

\* What the claim and its amendment say of a header apart from the length.
HeaderWellFormed ==
    LET h == hdr.header IN
    /\ Len(h) = 4
    /\ \A i \in 1..4 : h[i] \in 0..255
    /\ h[1] = bitor(bitor(hdr.seq, shl((hdr.seq + 1) % 8, 3, 8)), 192)
    /\ h[2] % 16 = 14
    /\ (h[1] + h[2] + h[3] + h[4]) % 256 = 0

\* The length the two length fields of the header give back.
HeaderLength == bitor(shr(hdr.header[2], 4), shl(hdr.header[3], 4, 16))

\* C31 as claimed: for every seq in 0..7 and every payload_len the header has
\* 4 bytes, byte 0 is seq | ((seq+1) mod 8) << 3 | 0xC0, the low nibble of
\* byte 1 is 14, the four bytes sum to 0 mod 256 and the length fields give
\* payload_len back.
HeaderReconstructsEveryLength ==
    hdr.pc = "built" => HeaderWellFormed /\ HeaderLength = hdr.payload_len

\* C31, amended: the same, with the length fields giving back the low 12 bits
\* of payload_len, which is payload_len itself up to 4095.
HeaderReconstructsLow12Bits ==
    hdr.pc = "built"
    => /\ HeaderWellFormed
       /\ HeaderLength = hdr.payload_len % 4096
       /\ hdr.payload_len <= 4095 => HeaderLength = hdr.payload_len

\* The header of a data frame with a full chunk (4 + 512 bytes) was built
\* with the last sequence number, whose successor wraps to 0.
HeaderReconstructsLow12BitsWitness ==
    /\ hdr.pc = "built"
    /\ hdr.seq = 7
    /\ hdr.payload_len = 4 + FIRMWARE_CHUNK_SIZE
    /\ hdr.header[1] = 199

\* C32: while the engine waits for the device to re-enumerate (for the
\* bootloader after bootloader entry, for the application after StopData and
\* after an acknowledged SET_ROLE or SET_PROFILE) it has no serial port open.
NoPortWhileReenumerating ==
    /\ \A c \in Calls :
          call[c].pc \in {"wait_bootloader", "reboot_wait"} => call[c].transport # "open"
    /\ conf.pc = "reboot" => conf.port = "closed"

\* StopData was acknowledged over the open port, and the engine is about to
\* wait for the application with the port closed.
NoPortWhileReenumeratingWitness ==
    /\ call["first"].pc = "reboot_wait"
    /\ call["first"].stopSent
    /\ call["first"].transport = "closed"

\* C33: the engine enters the bootloader by the mode it detected: with the
\* device found in bootloader mode it calls reset_bootloader and not
\* touch_reset, otherwise touch_reset and not reset_bootloader, and it makes
\* no other reset in the attempt; in both cases it then waits for the
\* bootloader with the identifier of the device it detected, and from the
\* connection on nothing of the mode is left in the engine.
BootloaderEntryByMode ==
    /\ [](\A c \in Calls :
            /\ call[c].pc = "wait_bootloader" => call[c].entry.wait_for # NoIdentifier
            /\ call[c].pc \in EnginePcs \ {"enter_bootloader", "wait_bootloader"}
               => call[c].device = NoDevice /\ call[c].entry = NoEntry)
    /\ [][\A c \in Calls :
            call'[c].entry # call[c].entry /\ call'[c].entry # NoEntry
            => /\ call[c].pc = "enter_bootloader"
               /\ call[c].device \in Snapshots
               /\ call[c].entry = NoEntry
               /\ call'[c].entry.reset =
                     IF call[c].device.in_bootloader THEN "reset_bootloader" ELSE "touch_reset"
               /\ call'[c].pc = "wait_bootloader"
                  => call'[c].entry.wait_for = from_device(call[c].device)
               /\ call'[c].pc # "wait_bootloader"
                  => call'[c].entry.wait_for = NoIdentifier /\ call'[c].engErr = "Serial"]_vars

\* A device without a serial number was found in bootloader mode: it was
\* reset with reset_bootloader and the engine waits for it by VID/PID and port.
BootloaderEntryByModeWitness ==
    /\ call["first"].pc = "wait_bootloader"
    /\ call["first"].entry = [reset |-> "reset_bootloader", wait_for |-> [kind |-> "VidPidPort"]]

\* C34: a flash_dfu_firmware call rejected because a flash is in progress
\* leaves DFU_IN_PROGRESS true and DFU_CANCELLED as it was, and nothing of the
\* running call changes: the flag of the running session is not released
\* and a cancellation pending for it is not cleared.
RejectedCallLeavesFlags ==
    [][\A c \in Calls :
          call'[c] # call[c] /\ call'[c].result = "AlreadyInProgress"
          => /\ DFU_IN_PROGRESS
             /\ DFU_IN_PROGRESS'
             /\ DFU_CANCELLED' = DFU_CANCELLED
             /\ \A d \in Calls \ {c} : call'[d] = call[d]]_vars

\* A call was rejected while the other was sending firmware with a
\* cancellation pending: both flags are still set.
RejectedCallLeavesFlagsWitness ==
    /\ call["second"].result = "AlreadyInProgress"
    /\ call["first"].pc = "tx_wait"
    /\ call["first"].cur = "data"
    /\ DFU_CANCELLED
    /\ DFU_IN_PROGRESS

\* C35: an engine attempt that ended with the Cancelled error is not retried:
\* the retry loop returns the cancellation error after that attempt, whatever
\* is left of the retry budget, and starts no further attempt.
CancelledNotRetried ==
    [][\A c \in Calls :
          call[c].pc = "inner_ret" /\ call[c].engErr = "Cancelled" /\ call'[c] # call[c]
          => call'[c].pc = "done" /\ call'[c].result = "Cancelled"]_vars

\* The first attempt of a call ended with the Cancelled error, announced as
\* its last stage, with both retries left.
CancelledNotRetriedWitness ==
    /\ call["first"].pc = "inner_ret"
    /\ call["first"].engErr = "Cancelled"
    /\ call["first"].attempt = 0
    /\ call["first"].stages # <<>>
    /\ call["first"].stages[Len(call["first"].stages)] = Stage("Cancelled")

\* C36: once cancel_dfu_flash was issued while a flash_dfu_firmware call is
\* in progress, whether an attempt is running or the call sleeps between two
\* attempts, the call starts no further engine attempt.
CancelStopsFurtherAttempts ==
    [][\A c \in Calls :
          obs[c].cancelSeen => ~(call[c].pc = "attempt" /\ call'[c].pc = "read_package")]_vars

\* C37: in flash_dfu_firmware_inner and in set_device_profile, once the
\* blocking worker has finished the forwarder thread ends (every sender is
\* dropped, or the frontend channel is found disconnected), the join on it
\* is not entered before that is bound to happen, and the command returns.
ForwarderTerminates ==
    /\ (fwd.worker \notin {"none", "running"}) ~> (fwd.forwarder = "ended")
    /\ (fwd.worker \notin {"none", "running"}) ~> (fwd.inner = "returned")
    /\ [](fwd.inner = "joining" => fwd.tx # "held")

\* set_device_profile has returned the worker's result after the join of a
\* forwarder that delivered all three events and ended on the closed channel.
ForwarderTerminatesWitness ==
    /\ fwd.command = "profile"
    /\ fwd.inner = "returned"
    /\ fwd.result = "Ok"
    /\ fwd.tx = "dropped"
    /\ fwd.forwarder = "ended"
    /\ Len(fwd.delivered) = 3

\* C38: send_and_wait_ack takes a packet for acknowledged only on a frame the
\* bootloader sent in answer to that packet: the frame wait_for_ack accepts is
\* never the ACK of an earlier packet of the session.
AckAnswersThePacket ==
    [][\A c \in Calls :
          call[c].pc = "tx_wait" /\ call'[c] = AfterAck(call[c])
          => acks # <<>> /\ Head(acks) = call[c].pktNo]_vars

\* The engine is sending, or about to send, StartDfu or a firmware DATA frame.
Transferring(c) ==
    \/ call[c].pc \in {"start_dfu", "data"}
    \/ call[c].pc \in {"tx_send", "tx_wait"} /\ call[c].cur \in {"start_dfu", "data"}

InvalidRoleRefusedFirst ==
    role # Off /\ role_command(role.device_role) = NoCommand
    => /\ \A i \in DOMAIN call["first"].stages :
            call["first"].stages[i].stage \notin {"EnteringBootloader", "Uploading"}
       /\ call["first"].entry.reset = "none"
       /\ call["first"].sentMax = 0
       /\ wire = <<>>

====
